---- MODULE Spec2Model ----
(***************************************************************************)
(* Remote-execution scheduler (scheduler_server.go): the task store kept   *)
(* in Redis, ScheduleTask, the LeaseTask stream and ReEnqueueTask.         *)
(*                                                                         *)
(* Every Redis command is one atomic step; the statements of a handler     *)
(* that touch only its own locals are folded into the Redis step that      *)
(* precedes them.                                                          *)
(***************************************************************************)
EXTENDS Integers, Sequences, FiniteSets, TLC

\* ------------------------------------------------------------------ bounds
MaxTime == 1
MaxMsgs == 2
MaxProbeFailures == 1

\* The LeaseTask streams that may be open at once, and the ScheduleTask
\* calls that may be in progress at once.
Streams == {"l1", "l2"}
Reqs == {"r1"}

\* --------------------------------------------------------- program constants
probesPerTask == 3
maxTaskAttemptCount == 5
leaseIntervalSeconds == 10
leaseGracePeriodSeconds == 10
maxUnclaimedTasksTracked == 10000
\* maxAllowedExecutionNodesStaleness, in clock ticks (one tick is 10 s)
maxAllowedExecutionNodesStaleness == 1
\* tasksize.MaxResourceCapacityRatio
MaxResourceCapacityRatio == 1

\* ------------------------------------------------------------ input domains
TaskIds == {"t1", "t2"}
\* The ids that ScheduleTask requests carry; the other ids are only asked for.
SubmittedIds == {"t1"}
PoolKeys == {"p1", "p2"}
Schedulers == {"A", "B"}

\* SchedulingMetadata: the pool key and the task size (hasSize: TaskSize set).
\* NilMeta is the nil message, NoSizeMeta a message without task_size.
NilMeta == [pool |-> "", hasSize |-> FALSE, mem |-> 0, cpu |-> 0]
NoSizeMeta == [pool |-> "p1", hasSize |-> FALSE, mem |-> 0, cpu |-> 0]
Meta1 == [pool |-> "p1", hasSize |-> TRUE, mem |-> 1, cpu |-> 1]
Meta2 == [pool |-> "p2", hasSize |-> TRUE, mem |-> 1, cpu |-> 1]
Metadatas == {Meta1, Meta2}

\* The (metadata, serialized task) pairs of the ScheduleTask requests: two
\* well-formed ones, and one for each missing argument.
RequestInputs ==
    {[metadata |-> Meta1, payload |-> "x"], [metadata |-> Meta2, payload |-> "y"],
     [metadata |-> NilMeta, payload |-> "x"], [metadata |-> NoSizeMeta, payload |-> "x"],
     [metadata |-> Meta1, payload |-> ""]}
\* The scheduler that receives the ScheduleTask requests.
RequestScheduler == "A"

\* The executors registered in the Redis pool hashes before the first request:
\* pool p1 has one executor, streaming to scheduler B; pool p2 has none.
\* (handle: the node is a connected executor of this scheduler, with a handle.)
Exec1 == [executorID |-> "e1", schedulerHostPort |-> "B", handle |-> FALSE, mem |-> 1, cpu |-> 1]
NoNode == [executorID |-> "", schedulerHostPort |-> "", handle |-> FALSE, mem |-> 0, cpu |-> 0]
RegisteredNodes == [k \in PoolKeys |-> IF k = "p1" THEN <<Exec1>> ELSE <<>>]

VARIABLES
    now,            \* wall clock (time.Now), in ticks
    store,          \* Redis hashes "task/<id>"
    unclaimedTasks, \* Redis sorted sets "unclaimedTasks/<pool>": member -> score
    poolHash,       \* Redis hashes "executorPool/<pool>"
    pools,          \* SchedulerServer.pools of every scheduler instance
    reqs,           \* the ScheduleTask calls
    ls,             \* the LeaseTask streams
    claimsHeld,     \* history: per task, the claim scripts that returned 1
                    \* since its claimed field was last absent
    call            \* a function of the server called on its own: its
                    \* arguments and what it returned

vars == <<now, store, unclaimedTasks, poolHash, pools, reqs, ls, claimsHeld, call>>

\* ------------------------------------------------------------- task store
\* A task hash: taskProto, schedulingMetadataProto and queuedAtUsec are
\* written together (hasData); attemptCount is present in every hash that
\* exists; claimed is present iff the flag is set; ttl: an expiry is set.
NoRow == [exists |-> FALSE, hasData |-> FALSE, payload |-> "", metadata |-> NilMeta,
          queuedAt |-> 0, attemptCount |-> 0, claimed |-> FALSE, ttl |-> FALSE]

\* HSET key f1 v1 .. f4 v4: creates the hash or overwrites the four fields,
\* and keeps every other field (claimed) and the expiry.
HSetTask(row, payload, metadata, t) ==
    [row EXCEPT !.exists = TRUE, !.hasData = TRUE, !.payload = payload,
                !.metadata = metadata, !.queuedAt = t, !.attemptCount = 0]

\* A reply that counts the fields written.
HSetWrittenFields(row) == 4
\* The reply of that HSET: the number of fields that did not exist before.
HSetNewFields(row) ==
    IF ~row.exists THEN 4 ELSE IF ~row.hasData THEN 3 ELSE 0

\* An EXPIRE that sets no expiry.
ExpireTaskNoTTL(row) == row
\* EXPIRE key ttl: 1 and the expiry is set if the key exists, else 0.
ExpireTask(row) == IF row.exists THEN [row EXCEPT !.ttl = TRUE] ELSE row

\* A claim script without its hexists test.
AcquireClaimOkNoTest(row) == row.exists
\* A claim script that reports success without setting the field.
AcquireClaimNoSet(row) == row
\* redisAcquireClaim: 1 iff the hash exists and has no claimed field.
AcquireClaimOk(row) == row.exists /\ ~row.claimed
AcquireClaim(row) == IF AcquireClaimOk(row) THEN [row EXCEPT !.claimed = TRUE] ELSE row

\* redisReleaseClaim: 1 iff claimed = "1"; removes the field.
ReleaseClaimOk(row) == row.exists /\ row.claimed
ReleaseClaim(row) == IF ReleaseClaimOk(row) THEN [row EXCEPT !.claimed = FALSE] ELSE row

\* A finalize script that removes the claimed field and keeps the hash.
DeleteClaimedKeepsHash(row) ==
    IF row.exists /\ row.claimed THEN [row EXCEPT !.claimed = FALSE] ELSE row
\* A delete script without its test of the claimed field.
DeleteUnguarded(row) == NoRow
\* redisDeleteClaimedTask: 1 iff claimed = "1"; deletes the hash.
DeleteClaimedOk(row) == row.exists /\ row.claimed
DeleteClaimed(row) == IF DeleteClaimedOk(row) THEN NoRow ELSE row

\* HINCRBY key attemptCount 1: creates the hash and the field when missing.
HIncrAttempt(row) ==
    IF row.exists THEN [row EXCEPT !.attemptCount = @ + 1]
    ELSE [NoRow EXCEPT !.exists = TRUE, !.attemptCount = 1]

\* readTask: NotFound when the taskProto field is missing.
ReadTaskOk(row) == row.exists /\ row.hasData

\* -------------------------------------------------------------- node pool
\* A nodePool of one scheduler: nodes is the cached executor list, lastFetch
\* the time of the last fetch (-1: the zero time).
NoPool == [exists |-> FALSE, nodes |-> <<>>, lastFetch |-> -1]
NewNodePool == [exists |-> TRUE, nodes |-> <<>>, lastFetch |-> -1]

\* getOrCreatePool
GetOrCreatePool(ps, key) == IF ps[key].exists THEN ps ELSE [ps EXCEPT ![key] = NewNodePool]

\* RefreshNodes: keeps a non-empty cache fetched within the staleness bound,
\* otherwise replaces the cache by the content of the Redis pool hash.
RefreshNodes(np, hash, t) ==
    IF np.lastFetch > t - maxAllowedExecutionNodesStaleness /\ Len(np.nodes) > 0
    THEN np
    ELSE [np EXCEPT !.nodes = hash, !.lastFetch = t]

\* A fit test that looks at the memory only.
NodeFitsMemory(node, md) == node.mem * MaxResourceCapacityRatio >= md.mem
\* The fit test of NodeCount.
NodeFits(node, md) ==
    /\ node.mem * MaxResourceCapacityRatio >= md.mem
    /\ node.cpu * MaxResourceCapacityRatio >= md.cpu

\* The loop of NodeCount over the cached nodes.
RECURSIVE FitLoop(_, _)
FitLoop(nodes, md) ==
    IF Len(nodes) = 0 THEN 0
    ELSE (IF NodeFits(Head(nodes), md) THEN 1 ELSE 0) + FitLoop(Tail(nodes), md)

\* NodeCount after the refresh: the number of cached nodes that fit the task
\* (0 stands for the Unavailable error, of an empty pool or of no fit).
FitCount(np, md) == FitLoop(np.nodes, md)

\* A probe count that ignores the number of nodes.
minIntFirst(i, j) == i
minInt(i, j) == IF i < j THEN i ELSE j

\* ZADD key score member
ZAdd(zset, member, score) == [zset EXCEPT ![member] = score]
\* ZREM key member
ZRem(zset, member) == [zset EXCEPT ![member] = -1]
\* ZCARD key
ZCard(zset) == Cardinality({m \in DOMAIN zset : zset[m] >= 0})
ZMembers(zset) == {m \in DOMAIN zset : zset[m] >= 0}
\* Rank of a member: Redis orders by score, then by member.
MemberRank(m) ==
    CASE m = "t1" -> 1 [] m = "t2" -> 2 [] m = "t3" -> 3 [] m = "t4" -> 4 [] m = "t5" -> 5
MemberLess(a, b) == MemberRank(a) < MemberRank(b)
ZBefore(zset, a, b) == zset[a] < zset[b] \/ (zset[a] = zset[b] /\ MemberLess(a, b))
ZRank(zset, m) == Cardinality({o \in ZMembers(zset) : ZBefore(zset, o, m)})
\* ZREMRANGEBYRANK key 0 stop
ZRemRangeByRank(zset, stop) ==
    [m \in DOMAIN zset |-> IF zset[m] >= 0 /\ ZRank(zset, m) <= stop THEN -1 ELSE zset[m]]

\* A trim that stops one rank early.
TrimStopShort(n, limit) == n - limit - 2
\* The last rank of the trim of a set of n members down to limit.
TrimStop(n, limit) == n - limit - 1

\* AddUnclaimedTask: ZADD at score now, then ZCARD and the trim of the oldest.
AddUnclaimedTask(zset, taskID, t) ==
    LET added == ZAdd(zset, taskID, t)
        n == ZCard(added)
    IN  IF n > maxUnclaimedTasksTracked
        THEN ZRemRangeByRank(added, TrimStop(n, maxUnclaimedTasksTracked))
        ELSE added

\* RemoveUnclaimedTask
RemoveUnclaimedTask(zset, taskID) == ZRem(zset, taskID)

\* The rankings the task router may return: any order of the candidates.
Rankings(nodes) ==
    {r \in [1..Len(nodes) -> 1..Len(nodes)] : \A i, j \in 1..Len(nodes) : i # j => r[i] # r[j]}
RankNodes(nodes, r) == [i \in 1..Len(nodes) |-> nodes[r[i]]]
AllRankings == UNION {Rankings(poolHash[k]) : k \in PoolKeys}

\* ------------------------------------------------------------------- Init
\* No function is being called on its own.
NoCall == [op |-> "none"]

IdleReq == [pc |-> "idle", taskId |-> "", metadata |-> NilMeta, payload |-> "", err |-> ""]

\* A LeaseTask stream: its locals taskID, claimed, closing, lastCheckin (the
\* time of the last response, or of the start of the stream), rsp (the
\* response being built: its payload) and task (its pool key), the responses
\* it has sent, the status it returned ("": nil), and whether its deferred
\* function called ReEnqueueTask.
NewStream == [pc |-> "recv", taskID |-> "", claimed |-> FALSE, closing |-> FALSE,
              payload |-> "", poolKey |-> "", rsps |-> <<>>, result |-> "",
              reEnqueued |-> FALSE, lastCheckin |-> 0]

Init ==
    /\ now = 0
    /\ store = [t \in TaskIds |-> NoRow]
    /\ unclaimedTasks = [k \in PoolKeys |-> [t \in TaskIds |-> -1]]
    /\ poolHash = RegisteredNodes
    /\ pools = [sc \in Schedulers |-> [k \in PoolKeys |-> NoPool]]
    /\ reqs = [r \in Reqs |-> IdleReq]
    /\ ls = [s \in Streams |-> NewStream]
    /\ claimsHeld = [t \in TaskIds |-> 0]
    /\ call = NoCall

\* ------------------------------------------------------------ environment
\* The history of a step in which the claim script returned 1 for the tasks
\* of won: a count restarts when the claimed field is absent after the step.
TrackClaims(won) ==
    claimsHeld' = [t \in TaskIds |->
        IF t \in won THEN claimsHeld[t] + 1
        ELSE IF store'[t].claimed THEN claimsHeld[t] ELSE 0]

\* A reading t of the clock (time.Now): time has passed since the last one.
ClockRead(t) ==
    /\ t \in now..MaxTime
    /\ now' = t

\* Redis removes a task hash whose expiry (taskTTL) has elapsed.
TTLExpire(t) ==
    /\ store[t].exists /\ store[t].ttl
    /\ store' = [store EXCEPT ![t] = NoRow]
    /\ UNCHANGED <<now, unclaimedTasks, poolHash, pools, reqs, ls, call>>
    /\ TrackClaims({})

\* ----------------------------------------------------------- ReEnqueueTask
\* ReEnqueueTask(taskID): the handler returns at its first statement, after
\* the log line, with an empty response; nothing else is read or written.
ReEnqueueTask(taskID) ==
    UNCHANGED <<store, unclaimedTasks, poolHash, pools>>

\* The ReEnqueueTask RPC, called by an executor.
ReEnqueueTaskRPC(t) ==
    /\ ReEnqueueTask(t)
    /\ UNCHANGED <<now, reqs, ls, call>>
    /\ TrackClaims({})

\* ------------------------------------------------------------ ScheduleTask
Done(rq, e) == [IdleReq EXCEPT !.pc = "done", !.err = e]

\* The call has returned; the next call of this client begins.
ScheduleTaskReturn(r) ==
    /\ reqs[r].pc = "done"
    /\ reqs' = [reqs EXCEPT ![r] = IdleReq]
    /\ UNCHANGED <<now, store, unclaimedTasks, poolHash, pools, ls, call>>
    /\ TrackClaims({})

\* ScheduleTask up to the HSET of insertTask: the four argument checks, then
\* the HSET and the test of its reply.
ScheduleTaskInsert(r, tid, md, pl, t) ==
    /\ reqs[r].pc = "idle"
    /\ ClockRead(t)
    /\ LET rq == [reqs[r] EXCEPT !.taskId = tid, !.metadata = md, !.payload = pl]
       IN  IF tid = "" \/ md = NilMeta \/ ~md.hasSize \/ pl = ""
           THEN /\ reqs' = [reqs EXCEPT ![r] = Done(rq, "FailedPrecondition")]
                /\ UNCHANGED store
           ELSE /\ store' = [store EXCEPT ![tid] = HSetTask(store[tid], pl, md, t)]
                /\ reqs' = [reqs EXCEPT ![r] =
                      IF HSetNewFields(store[tid]) = 0
                      THEN Done(rq, "AlreadyExists")
                      ELSE [rq EXCEPT !.pc = "expire"]]
    /\ UNCHANGED <<unclaimedTasks, poolHash, pools, ls, call>>
    /\ TrackClaims({})

\* insertTask: the EXPIRE that sets taskTTL.
ScheduleTaskExpire(r) ==
    /\ reqs[r].pc = "expire"
    /\ LET tid == reqs[r].taskId
       IN  /\ store' = [store EXCEPT ![tid] = ExpireTask(store[tid])]
           /\ reqs' = [reqs EXCEPT ![r] =
                 IF store[tid].exists THEN [@ EXCEPT !.pc = "dispatch"]
                 ELSE Done(@, "DataLoss")]
    /\ UNCHANGED <<now, unclaimedTasks, poolHash, pools, ls, call>>
    /\ TrackClaims({})

\* enqueueTaskReservationOpts of ScheduleTask and of ReEnqueueTask.
ScheduleOpts == [numReplicas |-> probesPerTask, maxAttempts |-> 0, alwaysScheduleLocally |-> FALSE]

\* enqueueTaskReservationOpts of EnqueueTaskReservation.
EnqueueOpts == [numReplicas |-> 1, maxAttempts |-> 10, alwaysScheduleLocally |-> TRUE]

\* The probe loop of enqueueTaskReservations. lp holds its locals (probes:
\* the reservations sent, with their outcome), candidates is
\* nodeBalancer.nodes (or connectedExecutors when scheduling locally), rank
\* the order the task router returns; env.fails are the attempts on which the
\* handle or the RPC returns an error, env.doneAt is the attempt at which
\* ctx is done (0: never).
NewLoop(probeCount, preferred) ==
    [probeCount |-> probeCount, probesSent |-> 0, attempts |-> 0, sampleIndex |-> 0,
     nodes |-> <<>>, preferredNode |-> preferred, reservations |-> <<>>,
     probes |-> <<>>, err |-> ""]

\* A loop that never gives up.
MaxAttemptsNever(attempts, opts) == FALSE
\* The test of opts.maxAttempts, after attempts++.
MaxAttemptsExceeded(attempts, opts) == opts.maxAttempts > 0 /\ attempts > opts.maxAttempts

\* The timeout of an EnqueueTaskReservation RPC to a scheduler, in seconds.
schedulerEnqueueTaskReservationTimeout == 3

\* An RPC that goes to scheduler A whatever the node says.
SchedulerA(node) == "A"
\* node.GetSchedulerURI(): the scheduler that the RPC of a probe goes to.
GetSchedulerURI(node) == node.schedulerHostPort

\* The probe goes to node.handle, and otherwise to the scheduler of the node.
ProbeByHandle(node, opts) == opts.alwaysScheduleLocally

\* A loop that keeps its preference after the probe of the preferred node.
KeepPreferred(preferredNode, preferred) == preferredNode
\* preferredNode after an iteration: unset once the preferred node was taken.
ClearPreferred(preferredNode, preferred) == IF preferred THEN NoNode ELSE preferredNode

\* One iteration of the loop, entered with probesSent < probeCount.
ProbeStep(lp, candidates, opts, rank, env) ==
    IF env.doneAt > 0 /\ lp.attempts + 1 >= env.doneAt
    THEN [lp EXCEPT !.attempts = @ + 1, !.err = "Canceled"]
    ELSE IF MaxAttemptsExceeded(lp.attempts + 1, opts)
    THEN [lp EXCEPT !.attempts = @ + 1, !.err = "ResourceExhausted"]
    ELSE LET resample == lp.sampleIndex = 0
             preferred == resample /\ lp.preferredNode # NoNode
             nodes == IF ~resample THEN lp.nodes
                      ELSE IF preferred THEN <<lp.preferredNode>>
                      ELSE RankNodes(candidates, rank)
         IN  IF resample /\ ~preferred /\ Len(candidates) = 0
             THEN [lp EXCEPT !.attempts = @ + 1, !.err = "Unavailable"]
             ELSE IF lp.sampleIndex >= Len(nodes)
             THEN [lp EXCEPT !.attempts = @ + 1, !.err = "FailedPrecondition"]
             ELSE LET node == nodes[lp.sampleIndex + 1]
                      byHandle == ProbeByHandle(node, opts)
                      target == IF byHandle THEN node.handle = TRUE
                                ELSE GetSchedulerURI(node) # ""
                      ok == target /\ (lp.attempts + 1) \notin env.fails
                  IN  [lp EXCEPT
                          !.attempts = @ + 1,
                          !.nodes = nodes,
                          !.preferredNode = ClearPreferred(@, preferred),
                          !.sampleIndex = (@ + 1) % Len(nodes),
                          !.probesSent = IF ok THEN @ + 1 ELSE @,
                          !.probes = IF target
                                     THEN Append(@, [executorID |-> node.executorID, ok |-> ok,
                                                     attempt |-> lp.attempts + 1,
                                                     via |-> IF byHandle THEN "handle" ELSE "rpc",
                                                     uri |-> IF byHandle THEN "" ELSE GetSchedulerURI(node),
                                                     timeout |-> IF byHandle THEN 0
                                                                 ELSE schedulerEnqueueTaskReservationTimeout])
                                     ELSE @,
                          !.reservations = IF ok THEN Append(@, node.executorID) ELSE @]

\* The loop: iterations until probeCount probes were accepted or one returns
\* an error.
RECURSIVE ProbeLoop(_, _, _, _, _)
ProbeLoop(lp, candidates, opts, rank, env) ==
    IF lp.probesSent >= lp.probeCount \/ lp.err # "" THEN lp
    ELSE ProbeLoop(ProbeStep(lp, candidates, opts, rank, env), candidates, opts, rank, env)

\* ScheduleTask after the insert: enqueueTaskReservations. NodeCount on the
\* pool of the task, AddUnclaimedTask, then the probe loop; the probes of a
\* ScheduleTask are RPCs to the schedulers of the executors.
ScheduleTaskDispatch(r, t, rank, fails) ==
    /\ reqs[r].pc = "dispatch"
    /\ ClockRead(t)
    /\ LET sc == RequestScheduler
           md == reqs[r].metadata
           key == md.pool
           created == GetOrCreatePool(pools[sc], key)
           np == RefreshNodes(created[key], poolHash[key], t)
           nodeCount == FitCount(np, md)
           probeCount == minInt(ScheduleOpts.numReplicas, nodeCount)
           lp == ProbeLoop(NewLoop(probeCount, NoNode), np.nodes, ScheduleOpts, rank,
                           [fails |-> 1..fails, doneAt |-> 0])
       IN  /\ rank \in Rankings(np.nodes)
           /\ pools' = [pools EXCEPT ![sc] = [created EXCEPT ![key] = np]]
           /\ IF nodeCount = 0
              THEN /\ reqs' = [reqs EXCEPT ![r] = Done(@, "Unavailable")]
                   /\ UNCHANGED unclaimedTasks
              ELSE /\ unclaimedTasks' = [unclaimedTasks EXCEPT
                          ![key] = AddUnclaimedTask(@, reqs[r].taskId, t)]
                   /\ reqs' = [reqs EXCEPT ![r] = Done(@, lp.err)]
    /\ UNCHANGED <<store, poolHash, ls, call>>
    /\ TrackClaims({})

\* --------------------------------------------------------------- LeaseTask
\* A stream that has returned: its locals are gone, what it sent remains.
Ended(st, re) ==
    [NewStream EXCEPT !.pc = "done", !.taskID = st.taskID, !.result = st.result,
                      !.rsps = st.rsps, !.reEnqueued = re]

\* A return that never runs the deferred re-enqueue.
ExitUnclaimed(st, why) == Ended([st EXCEPT !.result = why], FALSE)

\* LeaseTask returns (break or return err): the deferred function is next;
\* it returns at once when the stream is not claimed.
Exit(st, why) ==
    IF st.claimed
    THEN [Ended([st EXCEPT !.result = why], FALSE) EXCEPT !.pc = "defer", !.claimed = TRUE,
                                                          !.closing = st.closing]
    ELSE Ended([st EXCEPT !.result = why], FALSE)

\* stream.Recv returns io.EOF or another error: the loop is left.
LeaseRecvEnd(s) ==
    /\ ls[s].pc = "recv"
    /\ ls' = [ls EXCEPT ![s] = Exit(@, "")]
    /\ UNCHANGED <<now, store, unclaimedTasks, poolHash, pools, reqs, call>>
    /\ TrackClaims({})

TaskIdEmpty(taskID, reqTaskId) == reqTaskId = ""

\* The test of the task id of a request against the task id of the stream.
TaskIdMismatch(taskID, reqTaskId) ==
    reqTaskId = "" \/ (taskID # "" /\ reqTaskId # taskID)

\* stream.Recv returns a request {taskId: tid, finalize: fin}; late: more
\* than leaseInterval + leaseGracePeriod have passed since lastCheckin.
\* On a stream that has not claimed, the step ends with the claim script.
LeaseRecv(s, tid, fin, late) ==
    /\ ls[s].pc = "recv"
    /\ Len(ls[s].rsps) < MaxMsgs
    /\ LET st == ls[s]
       IN  IF TaskIdMismatch(st.taskID, tid)
           THEN /\ ls' = [ls EXCEPT ![s] = Exit(st, "InvalidArgument")]
                /\ UNCHANGED store
           ELSE IF late
           THEN /\ ls' = [ls EXCEPT ![s] = Exit([st EXCEPT !.taskID = tid], "")]
                /\ UNCHANGED store
           ELSE IF st.claimed
           THEN /\ ls' = [ls EXCEPT ![s] = [st EXCEPT !.taskID = tid, !.closing = fin,
                                                      !.pc = "send"]]
                /\ UNCHANGED store
           ELSE /\ store' = [store EXCEPT ![tid] = AcquireClaim(@)]
                /\ ls' = [ls EXCEPT ![s] =
                      IF AcquireClaimOk(store[tid])
                      THEN [st EXCEPT !.taskID = tid, !.closing = fin, !.pc = "incr"]
                      ELSE Exit([st EXCEPT !.taskID = tid], "NotFound")]
    /\ UNCHANGED <<now, unclaimedTasks, poolHash, pools, reqs, call>>
    /\ TrackClaims({t \in {tid} : ls'[s].pc = "incr"})

\* claimTask: the HINCRBY of attemptCount; claimTask returns nil and the
\* stream sets claimed.
LeaseIncr(s) ==
    /\ ls[s].pc = "incr"
    /\ store' = [store EXCEPT ![ls[s].taskID] = HIncrAttempt(@)]
    /\ ls' = [ls EXCEPT ![s].claimed = TRUE, ![s].pc = "read"]
    /\ UNCHANGED <<now, unclaimedTasks, poolHash, pools, reqs, call>>
    /\ TrackClaims({})

\* readTask after the claim.
LeaseRead(s) ==
    /\ ls[s].pc = "read"
    /\ LET row == store[ls[s].taskID]
       IN  ls' = [ls EXCEPT ![s] =
               IF ReadTaskOk(row)
               THEN [@ EXCEPT !.pc = "zrem", !.payload = row.payload,
                              !.poolKey = row.metadata.pool]
               ELSE Exit([@ EXCEPT !.closing = FALSE], "NotFound")]
    /\ UNCHANGED <<now, store, unclaimedTasks, poolHash, pools, reqs, call>>
    /\ TrackClaims({})

\* getPool on the scheduler sc that serves the stream and, when it has the
\* pool of the task, RemoveUnclaimedTask.
LeaseRemoveUnclaimed(s, sc) ==
    /\ ls[s].pc = "zrem"
    /\ unclaimedTasks' =
          IF pools[sc][ls[s].poolKey].exists
          THEN [unclaimedTasks EXCEPT ![ls[s].poolKey] = RemoveUnclaimedTask(@, ls[s].taskID)]
          ELSE unclaimedTasks
    /\ ls' = [ls EXCEPT ![s].pc = "send", ![s].poolKey = ""]
    /\ UNCHANGED <<now, store, poolHash, pools, reqs, call>>
    /\ TrackClaims({})

\* A response that carries the stored task on every message.
ResponseWithTask(st, claimedNow) ==
    [serializedTask |-> IF st.payload # "" THEN st.payload ELSE store[st.taskID].payload,
     leaseDurationSeconds |-> leaseIntervalSeconds,
     closedCleanly |-> ~claimedNow]
\* The response: rsp.SerializedTask is set only by the request that claimed.
Response(st, claimedNow) ==
    [serializedTask |-> st.payload,
     leaseDurationSeconds |-> leaseIntervalSeconds,
     closedCleanly |-> ~claimedNow]

\* The end of an iteration: on finalize of a claimed stream the delete
\* script (claimed is cleared when it deletes), then stream.Send; sendOk is
\* the outcome of the send.
LeaseSend(s, sendOk) ==
    /\ ls[s].pc = "send"
    /\ LET st == ls[s]
           tid == st.taskID
           finalize == st.closing /\ st.claimed
           claimedNow == IF finalize /\ DeleteClaimedOk(store[tid]) THEN FALSE ELSE st.claimed
           sent == [st EXCEPT !.claimed = claimedNow, !.payload = "", !.closing = FALSE,
                              !.lastCheckin = now]
       IN  /\ store' = IF finalize THEN [store EXCEPT ![tid] = DeleteClaimed(@)] ELSE store
           /\ ls' = [ls EXCEPT ![s] =
                 IF ~sendOk THEN Exit([sent EXCEPT !.closing = st.closing], "SendError")
                 ELSE LET answered == [sent EXCEPT !.rsps = Append(@, Response(st, claimedNow))]
                      IN  IF st.closing THEN Exit([answered EXCEPT !.closing = TRUE], "")
                          ELSE [answered EXCEPT !.pc = "recv"]]
    /\ UNCHANGED <<now, unclaimedTasks, poolHash, pools, reqs, call>>
    /\ TrackClaims({})

\* The deferred function of LeaseTask on a stream that is still claimed.
LeaseDefer(s) ==
    /\ ls[s].pc = "defer"
    /\ ReEnqueueTask(ls[s].taskID)
    /\ ls' = [ls EXCEPT ![s] = Ended(@, TRUE)]
    /\ UNCHANGED <<now, reqs, call>>
    /\ TrackClaims({})

\* ------------------------------------------------------------------- Next
Next ==
    \/ \E t \in TaskIds : TTLExpire(t)
    \/ \E t \in TaskIds : ReEnqueueTaskRPC(t)
    \/ \E r \in Reqs, tid \in SubmittedIds \cup {""}, inp \in RequestInputs, t \in {now} :
          ScheduleTaskInsert(r, tid, inp.metadata, inp.payload, t)
    \/ \E r \in Reqs : ScheduleTaskReturn(r)
    \/ \E r \in Reqs : ScheduleTaskExpire(r)
    \/ \E r \in Reqs, t \in {now}, rank \in AllRankings, fails \in 0..MaxProbeFailures :
          ScheduleTaskDispatch(r, t, rank, fails)
    \/ \E s \in Streams : LeaseRecvEnd(s)
    \/ \E s \in Streams, tid \in TaskIds \cup {""}, fin \in BOOLEAN, late \in BOOLEAN :
          LeaseRecv(s, tid, fin, late)
    \/ \E s \in Streams : LeaseIncr(s)
    \/ \E s \in Streams : LeaseRead(s)
    \/ \E s \in Streams, sc \in Schedulers : LeaseRemoveUnclaimed(s, sc)
    \/ \E s \in Streams, sendOk \in BOOLEAN : LeaseSend(s, sendOk)
    \/ \E s \in Streams : LeaseDefer(s)

Spec == Init /\ [][Next]_vars

\* ------------------------------------------------- the race for one task
\* Two executors race for a task that ScheduleTask has stored and enqueued:
\* the state after ScheduleTask(t1, Meta1, "x") on RequestScheduler, and the
\* lease streams alone from there on.
RaceTask == "t1"

InitRace ==
    /\ now = 0
    /\ store = [t \in TaskIds |->
          IF t = RaceTask THEN ExpireTask(HSetTask(NoRow, "x", Meta1, 0)) ELSE NoRow]
    /\ unclaimedTasks = [k \in PoolKeys |->
          IF k = Meta1.pool THEN AddUnclaimedTask([t \in TaskIds |-> -1], RaceTask, 0)
          ELSE [t \in TaskIds |-> -1]]
    /\ poolHash = RegisteredNodes
    /\ pools = [sc \in Schedulers |-> [k \in PoolKeys |->
          IF sc = RequestScheduler /\ k = Meta1.pool
          THEN RefreshNodes(NewNodePool, RegisteredNodes[k], 0) ELSE NoPool]]
    /\ reqs = [r \in Reqs |-> IdleReq]
    /\ ls = [s \in Streams |-> NewStream]
    /\ claimsHeld = [t \in TaskIds |-> 0]
    /\ call = NoCall

NextRace ==
    \/ \E s \in Streams : LeaseRecvEnd(s)
    \/ \E s \in Streams, tid \in TaskIds \cup {""}, fin \in BOOLEAN, late \in BOOLEAN :
          LeaseRecv(s, tid, fin, late)
    \/ \E s \in Streams : LeaseIncr(s)
    \/ \E s \in Streams : LeaseRead(s)
    \/ \E s \in Streams, sc \in Schedulers : LeaseRemoveUnclaimed(s, sc)
    \/ \E s \in Streams, sendOk \in BOOLEAN : LeaseSend(s, sendOk)
    \/ \E s \in Streams : LeaseDefer(s)

SpecRace == InitRace /\ [][NextRace]_vars

\* ------------------------------------------- a task at the attempt limit
\* The same task after maxTaskAttemptCount claims, held by stream l1, which
\* has had its first response; every operation may follow.
InitAtLimit ==
    /\ now = 0
    /\ store = [t \in TaskIds |->
          IF t = RaceTask
          THEN [ExpireTask(HSetTask(NoRow, "x", Meta1, 0)) EXCEPT
                   !.attemptCount = maxTaskAttemptCount, !.claimed = TRUE]
          ELSE NoRow]
    /\ unclaimedTasks = [k \in PoolKeys |-> [t \in TaskIds |-> -1]]
    /\ poolHash = RegisteredNodes
    /\ pools = [sc \in Schedulers |-> [k \in PoolKeys |->
          IF sc = RequestScheduler /\ k = Meta1.pool
          THEN RefreshNodes(NewNodePool, RegisteredNodes[k], 0) ELSE NoPool]]
    /\ reqs = [r \in Reqs |-> IdleReq]
    /\ ls = [s \in Streams |->
          IF s = "l1"
          THEN [NewStream EXCEPT !.taskID = RaceTask, !.claimed = TRUE,
                   !.rsps = <<[serializedTask |-> "x",
                               leaseDurationSeconds |-> leaseIntervalSeconds,
                               closedCleanly |-> FALSE]>>]
          ELSE NewStream]
    /\ claimsHeld = [t \in TaskIds |-> IF t = RaceTask THEN 1 ELSE 0]
    /\ call = NoCall

SpecAtLimit == InitAtLimit /\ [][Next]_vars

\* ================================================================= claims
Last(seq) == seq[Len(seq)]

\* The streams that hold a lease in their own view: claimed is set and the
\* stream has not returned.
Holding(s) == ls[s].claimed /\ ls[s].pc # "done"

\* C1: while the claimed field of a task stays set, the claim script has
\* returned 1 for it exactly once; a second caller never claims a task that
\* is still claimed.
C1_ClaimAtMostOnce ==
    \A t \in TaskIds : claimsHeld[t] = IF store[t].claimed THEN 1 ELSE 0

\* A stream holds t1 and another stream has been refused it with NotFound.
C1_Witness ==
    \E a, b \in Streams :
        /\ a # b
        /\ Holding(a) /\ ls[a].taskID = "t1" /\ store["t1"].claimed
        /\ claimsHeld["t1"] = 1
        /\ ls[b].pc = "done" /\ ls[b].taskID = "t1" /\ ls[b].result = "NotFound"

\* C2: a ScheduleTask for an id whose hash already holds a task returns
\* AlreadyExists and leaves the hash as it was.
C2_SecondInsertNoChange ==
    [][\A r \in Reqs, tid \in SubmittedIds, inp \in RequestInputs :
          (/\ ScheduleTaskInsert(r, tid, inp.metadata, inp.payload, now')
           /\ inp.metadata \in Metadatas /\ inp.payload # ""
           /\ store[tid].hasData)
          => (reqs'[r].err = "AlreadyExists" /\ store'[tid] = store[tid])]_vars

\* C3: attemptCount never decreases while the hash of a task exists.
C3_AttemptCountMonotonic ==
    [][\A t \in TaskIds :
          (store[t].exists /\ store'[t].exists)
          => store'[t].attemptCount >= store[t].attemptCount]_vars

\* C4: the claim of a task raises its attemptCount by exactly one, and no
\* other step on an existing hash changes it (a refused claim included).
C4_AttemptCountOnlyByClaim ==
    [][\A t \in TaskIds :
          /\ \A s \in Streams :
                (LeaseIncr(s) /\ ls[s].taskID = t /\ store[t].exists)
                => store'[t].attemptCount = store[t].attemptCount + 1
          /\ (store[t].exists /\ store'[t].exists
                /\ store'[t].attemptCount # store[t].attemptCount)
             => \E s \in Streams : LeaseIncr(s) /\ ls[s].taskID = t]_vars

\* C5: when a stream ends while it still holds the claim, the re-enqueue it
\* triggers leaves the task unclaimed and in the unclaimed set of its pool.
C5_AbandonReEnqueues ==
    [][\A s \in Streams :
          LET t == ls[s].taskID
          IN  (/\ LeaseDefer(s)
               /\ store[t].hasData /\ store[t].claimed
               /\ store[t].attemptCount < maxTaskAttemptCount)
              => (/\ store'[t].exists /\ ~store'[t].claimed
                  /\ unclaimedTasks'[store[t].metadata.pool][t] >= 0)]_vars

Won(s) ==
    /\ ls[s].taskID = RaceTask
    /\ \/ ls[s].pc \in {"incr", "read", "zrem", "send", "defer"}
       \/ ls[s].rsps # <<>>
       \/ ls[s].result = "SendError"
Lost(s) ==
    /\ ls[s].taskID = RaceTask
    /\ ls[s].pc = "done" /\ ls[s].result = "NotFound"
GotPayload(s) == ls[s].rsps # <<>> /\ ls[s].rsps[1].serializedTask # ""

\* C7: of two streams whose first message for the same unclaimed task has
\* been through the claim, exactly one claimed it and the other returned
\* NotFound without any response; the first response of the winner carries
\* the task; once the winner has finalized cleanly the task is gone.
C7_OneWinner ==
    /\ \A a, b \in Streams :
          (a # b /\ (Won(a) \/ Lost(a)) /\ (Won(b) \/ Lost(b)))
          => \/ (Won(a) /\ ~Lost(a) /\ Lost(b) /\ ~Won(b))
             \/ (Won(b) /\ ~Lost(b) /\ Lost(a) /\ ~Won(a))
    /\ \A s \in Streams :
          /\ Lost(s) => ls[s].rsps = <<>>
          /\ (Won(s) /\ ls[s].rsps # <<>>) => ls[s].rsps[1].serializedTask = "x"
          /\ (Won(s) /\ ls[s].rsps # <<>> /\ Last(ls[s].rsps).closedCleanly)
             => store[RaceTask] = NoRow
    /\ Cardinality({s \in Streams : ls[s].taskID = RaceTask /\ GotPayload(s)}) <= 1

\* Both streams asked for the task: one has the payload and has finalized,
\* the other was refused, and the task is gone.
C7_Witness ==
    \E a, b \in Streams :
        /\ a # b
        /\ Won(a) /\ GotPayload(a) /\ ls[a].pc = "done"
        /\ Last(ls[a].rsps).closedCleanly
        /\ Lost(b) /\ ls[b].rsps = <<>>
        /\ store[RaceTask] = NoRow

\* C8: a finalize whose delete script succeeds clears claimed, answers
\* closedCleanly = TRUE, leaves no hash and ends the stream without a
\* re-enqueue; and every response has closedCleanly = ~claimed as of its send.
C8_CleanFinalize ==
    [][\A s \in Streams :
          /\ (\E ok \in BOOLEAN : LeaseSend(s, ok)
                /\ ls[s].closing /\ ls[s].claimed
                /\ DeleteClaimedOk(store[ls[s].taskID]))
             => (/\ store'[ls[s].taskID] = NoRow
                 /\ ~ls'[s].claimed
                 /\ ls'[s].pc = "done" /\ ~ls'[s].reEnqueued
                 /\ Len(ls'[s].rsps) > Len(ls[s].rsps)
                       => Last(ls'[s].rsps).closedCleanly)
          /\ Len(ls'[s].rsps) > Len(ls[s].rsps)
             => Last(ls'[s].rsps).closedCleanly = ~ls'[s].claimed
          /\ (ls[s].pc = "done" /\ ls[s].rsps # <<>> /\ Last(ls[s].rsps).closedCleanly)
             => ~ls[s].reEnqueued]_vars

\* A stream has finalized cleanly: its last response says so, it has
\* returned without a re-enqueue, and the hash of its task is gone.
C8_Witness ==
    \E s \in Streams :
        /\ ls[s].pc = "done" /\ ls[s].rsps # <<>>
        /\ Last(ls[s].rsps).closedCleanly
        /\ ~ls[s].reEnqueued
        /\ store[ls[s].taskID] = NoRow

\* C9: on every stream the task is in the first response, the one to the
\* message that claimed, and in no later response; every response carries
\* the lease interval.
C9_PayloadOnce ==
    \A s \in Streams : \A i \in 1..Len(ls[s].rsps) :
        /\ (ls[s].rsps[i].serializedTask # "") <=> (i = 1)
        /\ ls[s].rsps[i].leaseDurationSeconds = leaseIntervalSeconds

\* A stream has had two responses: the first with the task, the second without.
C9_Witness ==
    \E s \in Streams :
        /\ Len(ls[s].rsps) >= 2
        /\ ls[s].rsps[1].serializedTask # ""
        /\ ls[s].rsps[2].serializedTask = ""

\* C10: a stream that is in the claimed state has a task whose hash exists
\* with the claimed field set.
C10_ClaimedStreamHasClaim ==
    \A s \in Streams :
        Holding(s) => (store[ls[s].taskID].exists /\ store[ls[s].taskID].claimed)

\* ------------------------------------------------------ the life of a task
\* One client and one executor, with the guarantees the runtime gives: a
\* ScheduleTask that has done its HSET goes on to its EXPIRE, and Redis
\* removes a hash once its expiry has elapsed.
LiveStreams == {"l1"}

NextLive ==
    \/ \E t \in TaskIds : TTLExpire(t)
    \/ \E r \in Reqs, tid \in SubmittedIds \cup {""}, inp \in RequestInputs, t \in {now} :
          ScheduleTaskInsert(r, tid, inp.metadata, inp.payload, t)
    \/ \E r \in Reqs : ScheduleTaskReturn(r)
    \/ \E r \in Reqs : ScheduleTaskExpire(r)
    \/ \E r \in Reqs, t \in {now}, rank \in AllRankings, fails \in 0..MaxProbeFailures :
          ScheduleTaskDispatch(r, t, rank, fails)
    \/ \E s \in LiveStreams : LeaseRecvEnd(s)
    \/ \E s \in LiveStreams, tid \in TaskIds \cup {""}, fin \in BOOLEAN, late \in BOOLEAN :
          LeaseRecv(s, tid, fin, late)
    \/ \E s \in LiveStreams : LeaseIncr(s)
    \/ \E s \in LiveStreams : LeaseRead(s)
    \/ \E s \in LiveStreams, sc \in Schedulers : LeaseRemoveUnclaimed(s, sc)
    \/ \E s \in LiveStreams, sendOk \in BOOLEAN : LeaseSend(s, sendOk)
    \/ \E s \in LiveStreams : LeaseDefer(s)

SpecLive ==
    /\ Init
    /\ [][NextLive]_vars
    /\ \A t \in TaskIds : WF_vars(TTLExpire(t))
    /\ \A r \in Reqs : WF_vars(ScheduleTaskExpire(r))

\* C11: a task that ScheduleTask has stored eventually leaves the store, and
\* a hash leaves the store only by the delete script of a finalize or by the
\* expiry of its TTL.
C11_TaskLeavesStore ==
    /\ \A t \in TaskIds : store[t].hasData ~> ~store[t].exists
    /\ [][\A t \in TaskIds :
             (store[t].exists /\ ~store'[t].exists)
             => \/ TTLExpire(t)
                \/ \E s \in Streams, ok \in BOOLEAN :
                      /\ LeaseSend(s, ok)
                      /\ ls[s].taskID = t /\ ls[s].closing /\ ls[s].claimed
                      /\ DeleteClaimedOk(store[t])]_vars

\* A task was stored and enqueued, no stream ever asked for it, and its hash
\* is gone: the TTL removed it.
C11_Witness ==
    /\ ~store["t1"].exists
    /\ unclaimedTasks["p1"]["t1"] >= 0
    /\ \A s \in Streams : ls[s].taskID # "t1"

\* ------------------------------------------- insertTask and readTask alone
\* The variables of the server, untouched by a function called on its own.
Quiet == UNCHANGED <<now, store, unclaimedTasks, poolHash, pools, reqs, ls, claimsHeld>>

\* strconv.FormatInt(n, 10) and strconv.ParseInt(s, 10, 64) on the decimal
\* digits of a non-negative integer (Redis keeps every hash value as a string).
RECURSIVE FormatInt(_)
FormatInt(n) == IF n < 10 THEN <<n>> ELSE Append(FormatInt(n \div 10), n % 10)
RECURSIVE ParseInt(_)
ParseInt(str) ==
    IF Len(str) = 0 THEN 0
    ELSE 10 * ParseInt(SubSeq(str, 1, Len(str) - 1)) + str[Len(str)]

\* timeutil.ToUsec and timeutil.FromUsec; a time is a count of nanoseconds.
ToUsec(ns) == ns \div 1000
FromUsec(usec) == usec * 1000

\* proto.Marshal of a SchedulingMetadata: the fields that are set, a message
\* field when present, a scalar when it is not its zero value.
MarshalTaskSize(md) ==
    (IF md.mem # 0 THEN <<[field |-> "estimated_memory_bytes", val |-> md.mem]>> ELSE <<>>)
    \o (IF md.cpu # 0 THEN <<[field |-> "estimated_milli_cpu", val |-> md.cpu]>> ELSE <<>>)
Marshal(md) ==
    (IF md.hasSize THEN <<[field |-> "task_size", val |-> MarshalTaskSize(md)]>> ELSE <<>>)
    \o (IF md.pool # "" THEN <<[field |-> "pool", val |-> md.pool]>> ELSE <<>>)

\* proto.Unmarshal into an empty message: every field on the wire is set.
RECURSIVE UnmarshalInto(_, _)
UnmarshalInto(md, bytes) ==
    IF Len(bytes) = 0 THEN md
    ELSE LET f == Head(bytes)
             set == CASE f.field = "pool" -> [md EXCEPT !.pool = f.val]
                      [] f.field = "task_size" -> UnmarshalInto([md EXCEPT !.hasSize = TRUE], f.val)
                      [] f.field = "estimated_memory_bytes" -> [md EXCEPT !.mem = f.val]
                      [] f.field = "estimated_milli_cpu" -> [md EXCEPT !.cpu = f.val]
         IN  UnmarshalInto(set, Tail(bytes))
Unmarshal(bytes) == UnmarshalInto(NilMeta, bytes)

\* A task hash in Redis: a function from the names of its fields.
TaskFields == {"taskProto", "schedulingMetadataProto", "queuedAtUsec", "attemptCount"}
NoHash == [f \in {} |-> <<>>]

\* An insertTask whose props start the attempt count at one.
InsertPropsCountOne(metadata, serializedTask, ns) ==
    [f \in TaskFields |->
        CASE f = "taskProto" -> serializedTask
          [] f = "schedulingMetadataProto" -> Marshal(metadata)
          [] f = "queuedAtUsec" -> FormatInt(ToUsec(ns))
          [] f = "attemptCount" -> FormatInt(1)]

\* insertTask: props, the fields it writes at time ns.
InsertProps(metadata, serializedTask, ns) ==
    [f \in TaskFields |->
        CASE f = "taskProto" -> serializedTask
          [] f = "schedulingMetadataProto" -> Marshal(metadata)
          [] f = "queuedAtUsec" -> FormatInt(ToUsec(ns))
          [] f = "attemptCount" -> FormatInt(0)]

\* HSET key props: the hash afterwards, and the number of new fields.
HSet(hash, props) ==
    [f \in DOMAIN hash \cup DOMAIN props |-> IF f \in DOMAIN props THEN props[f] ELSE hash[f]]
HSetReply(hash, props) == Cardinality(DOMAIN props \ DOMAIN hash)

\* insertTask: the hash afterwards and the status returned ("": nil).
InsertTaskCall(hash, metadata, serializedTask, ns) ==
    LET props == InsertProps(metadata, serializedTask, ns)
    IN  [hash |-> HSet(hash, props),
         err |-> IF HSetReply(hash, props) = 0 THEN "AlreadyExists" ELSE ""]

\* readTask: HMGET of the four fields, then the persistedTask or the status.
NoTask == [metadata |-> NilMeta, serializedTask |-> "", queuedTimestamp |-> 0, attemptCount |-> 0]
ReadTaskCall(hash) ==
    IF "taskProto" \notin DOMAIN hash THEN [err |-> "NotFound", task |-> NoTask]
    ELSE IF \E f \in TaskFields : f \notin DOMAIN hash
    THEN [err |-> "InvalidArgument", task |-> NoTask]
    ELSE [err |-> "",
          task |-> [metadata |-> Unmarshal(hash["schedulingMetadataProto"]),
                    serializedTask |-> hash["taskProto"],
                    queuedTimestamp |-> FromUsec(ParseInt(hash["queuedAtUsec"])),
                    attemptCount |-> ParseInt(hash["attemptCount"])]]

\* The arguments: a hash that is missing, one left by a late HINCRBY with
\* only its attempt count, or one that holds an older task; any metadata
\* that is not nil; a payload; a time of the insert.
RoundTripHashes ==
    {NoHash,
     [f \in {"attemptCount"} |-> FormatInt(1)],
     [InsertProps(Meta2, "y", 5000) EXCEPT !["attemptCount"] = FormatInt(2)]}
RoundTripMetadatas ==
    {Meta1, Meta2, NoSizeMeta,
     [pool |-> "", hasSize |-> TRUE, mem |-> 0, cpu |-> 0],
     [pool |-> "p1", hasSize |-> TRUE, mem |-> 0, cpu |-> 12]}
RoundTripPayloads == {"x", "y"}
RoundTripTimes == {0, 999, 1000, 1999, 20001, 1234567}

InitRoundTrip ==
    /\ now = 0
    /\ store = [t \in TaskIds |-> NoRow]
    /\ unclaimedTasks = [k \in PoolKeys |-> [t \in TaskIds |-> -1]]
    /\ poolHash = RegisteredNodes
    /\ pools = [sc \in Schedulers |-> [k \in PoolKeys |-> NoPool]]
    /\ reqs = [r \in Reqs |-> IdleReq]
    /\ ls = [s \in Streams |-> NewStream]
    /\ claimsHeld = [t \in TaskIds |-> 0]
    /\ \E op \in {"insertTask", "readTask"}, h \in RoundTripHashes, md \in RoundTripMetadatas,
          pl \in RoundTripPayloads, ns \in RoundTripTimes :
          call = [op |-> op, hash |-> h, metadata |-> md, payload |-> pl, nowNs |-> ns,
                  inserted |-> FALSE, insertErr |-> "", readErr |-> "", task |-> NoTask]

RoundTripInsert ==
    /\ call.op = "insertTask"
    /\ LET r == InsertTaskCall(call.hash, call.metadata, call.payload, call.nowNs)
       IN  call' = [call EXCEPT !.op = "readTask", !.hash = r.hash,
                                !.inserted = TRUE, !.insertErr = r.err]
    /\ Quiet

RoundTripRead ==
    /\ call.op = "readTask"
    /\ LET r == ReadTaskCall(call.hash)
       IN  call' = [call EXCEPT !.op = "done", !.readErr = r.err, !.task = r.task]
    /\ Quiet

NextRoundTrip == RoundTripInsert \/ RoundTripRead

SpecRoundTrip == InitRoundTrip /\ [][NextRoundTrip]_vars

\* C12: a readTask that follows a successful insertTask returns the payload
\* and the metadata that were inserted, the time of the insert (to the
\* microsecond that was written) and attempt count 0; a readTask of a
\* missing hash returns NotFound.
C12_RoundTrip ==
    call.op = "done" =>
        /\ (call.inserted /\ call.insertErr = "")
           => /\ call.readErr = ""
              /\ call.task.serializedTask = call.payload
              /\ call.task.metadata = call.metadata
              /\ call.task.queuedTimestamp = call.nowNs - (call.nowNs % 1000)
              /\ call.task.attemptCount = 0
        /\ call.hash = NoHash => call.readErr = "NotFound"

\* A task was inserted at a time that is not a whole microsecond and read
\* back.
C12_Witness ==
    /\ call.op = "done" /\ call.inserted /\ call.insertErr = ""
    /\ call.nowNs = 1234567 /\ call.task.queuedTimestamp = 1234000
    /\ call.task.metadata = Meta1 /\ call.task.serializedTask = "x"

\* ------------------------------------------ AddUnclaimedTask, step by step
\* The schedulers add tasks to the unclaimed set of one pool, each command of
\* AddUnclaimedTask a step of its own, while leases remove tasks from it.
\* The set holds up to five tasks and is trimmed to UnclaimedLimit, which
\* stands for maxUnclaimedTasksTracked; trimmed records the members that the
\* latest trim removed.
UnclaimedLimit == 2
AddMembers == {"t1", "t2", "t3", "t4", "t5"}
IdleAdder == [pc |-> "idle", n |-> 0]

InitAdd ==
    /\ now = 0
    /\ store = [t \in TaskIds |-> NoRow]
    /\ unclaimedTasks = [k \in PoolKeys |-> [t \in TaskIds |-> -1]]
    /\ poolHash = RegisteredNodes
    /\ pools = [sc \in Schedulers |-> [k \in PoolKeys |-> NoPool]]
    /\ reqs = [r \in Reqs |-> IdleReq]
    /\ ls = [s \in Streams |-> NewStream]
    /\ claimsHeld = [t \in TaskIds |-> 0]
    /\ call = [op |-> "AddUnclaimedTask",
               zset |-> [m \in AddMembers |-> -1],
               trimmed |-> {},
               adders |-> [a \in Schedulers |-> IdleAdder]]

\* ZADD at score time.Now().Unix() (and the EXPIRE of the set).
AddZAdd(a, m, t) ==
    /\ call.adders[a].pc = "idle"
    /\ ClockRead(t)
    /\ call' = [call EXCEPT !.zset = ZAdd(@, m, t), !.adders[a].pc = "zcard"]
    /\ UNCHANGED <<store, unclaimedTasks, poolHash, pools, reqs, ls, claimsHeld>>

\* ZCARD and the test of n.
AddZCard(a) ==
    /\ call.adders[a].pc = "zcard"
    /\ LET n == ZCard(call.zset)
       IN  call' = [call EXCEPT !.adders[a] =
               IF n > UnclaimedLimit THEN [pc |-> "trim", n |-> n] ELSE IdleAdder]
    /\ Quiet

\* ZREMRANGEBYRANK 0 n-limit-1.
AddTrim(a) ==
    /\ call.adders[a].pc = "trim"
    /\ LET trimmed == ZRemRangeByRank(call.zset, TrimStop(call.adders[a].n, UnclaimedLimit))
       IN  call' = [call EXCEPT
               !.zset = trimmed,
               !.trimmed = {m \in AddMembers : call.zset[m] >= 0 /\ trimmed[m] < 0},
               !.adders[a] = IdleAdder]
    /\ Quiet

\* RemoveUnclaimedTask by a lease that claimed m.
AddRemove(m) ==
    /\ call.zset[m] >= 0
    /\ call' = [call EXCEPT !.zset = RemoveUnclaimedTask(@, m)]
    /\ Quiet

NextAdd ==
    \/ \E a \in Schedulers, m \in AddMembers, t \in now..MaxTime : AddZAdd(a, m, t)
    \/ \E a \in Schedulers : AddZCard(a)
    \/ \E a \in Schedulers : AddTrim(a)
    \/ \E m \in AddMembers : AddRemove(m)

SpecAdd == InitAdd /\ [][NextAdd]_vars

AddsComplete(c) == \A a \in Schedulers : c.adders[a].pc = "idle"

\* C13: once every AddUnclaimedTask that was started has returned, the
\* unclaimed set holds at most the limit; and every member a trim removes is
\* older (by score, then by id) than every member it keeps.
C13_UnclaimedSetBounded ==
    [][/\ AddsComplete(call') => ZCard(call'.zset) <= UnclaimedLimit
       /\ \A a \in Schedulers :
             AddTrim(a) =>
                \A m, k \in ZMembers(call.zset) :
                   (call'.zset[m] < 0 /\ call'.zset[k] >= 0) => ZBefore(call.zset, m, k)]_vars

\* Every add has returned, the latest trim removed the two oldest members
\* at once (two adds had run before either counted), and the set is at its
\* limit.
C13_Witness ==
    /\ AddsComplete(call)
    /\ ZCard(call.zset) = UnclaimedLimit
    /\ Cardinality(call.trimmed) = 2
    /\ \A m \in call.trimmed : call.zset[m] < 0

\* ------------------------------------------ enqueueTaskReservations alone
\* One call of enqueueTaskReservations on a scheduler whose pool is given:
\* nodes is the cache after the refresh, connectedExecutors the executors
\* that stream to this scheduler (they carry a handle and no scheduler URI).
MaxDispatchFailures == 11
\* The attempt at which the context of a call that never ends is done.
CtxDoneAt == MaxDispatchFailures + 4

Remote(id, uri, mem, cpu) ==
    [executorID |-> id, schedulerHostPort |-> uri, handle |-> FALSE, mem |-> mem, cpu |-> cpu]
Local(id, handle, mem, cpu) ==
    [executorID |-> id, schedulerHostPort |-> "", handle |-> handle, mem |-> mem, cpu |-> cpu]

DispatchPools ==
    {[nodes |-> <<>>, connectedExecutors |-> <<>>],
     [nodes |-> <<Remote("e1", "B", 1, 1)>>, connectedExecutors |-> <<>>],
     [nodes |-> <<Remote("e1", "", 1, 1)>>, connectedExecutors |-> <<>>],
     [nodes |-> <<Remote("e1", "B", 1, 1), Remote("e2", "A", 2, 2)>>,
      connectedExecutors |-> <<Local("e2", TRUE, 2, 2)>>],
     [nodes |-> <<Remote("e1", "", 1, 1), Remote("e2", "A", 2, 2)>>,
      connectedExecutors |-> <<Local("e2", FALSE, 2, 2)>>],
     [nodes |-> <<Remote("e1", "B", 1, 1), Remote("e2", "A", 2, 2), Remote("e3", "A", 2, 1)>>,
      connectedExecutors |-> <<Local("e2", TRUE, 2, 2), Local("e3", TRUE, 2, 1)>>],
     [nodes |-> <<Remote("e1", "B", 2, 2), Remote("e2", "A", 2, 2), Remote("e3", "A", 2, 2),
                  Remote("e4", "B", 2, 2)>>,
      connectedExecutors |-> <<Local("e2", TRUE, 2, 2), Local("e3", TRUE, 2, 2)>>]}
DispatchSizes == {[pool |-> "p1", hasSize |-> TRUE, mem |-> m, cpu |-> m] : m \in 1..3}
DispatchExecutorIds == {"", "e2", "e9"}
FailPatterns == {1..k : k \in 0..MaxDispatchFailures} \cup {{2}, {1, 3}}

\* FindConnectedExecutorByID
FindConnectedExecutorByID(connected, executorID) ==
    IF executorID = "" \/ ~\E i \in 1..Len(connected) : connected[i].executorID = executorID
    THEN NoNode
    ELSE connected[CHOOSE i \in 1..Len(connected) :
                      /\ connected[i].executorID = executorID
                      /\ \A j \in 1..(i - 1) : connected[j].executorID # executorID]

InitDispatch ==
    /\ now = 0
    /\ store = [t \in TaskIds |-> NoRow]
    /\ unclaimedTasks = [k \in PoolKeys |-> [t \in TaskIds |-> -1]]
    /\ poolHash = RegisteredNodes
    /\ pools = [sc \in Schedulers |-> [k \in PoolKeys |-> NoPool]]
    /\ reqs = [r \in Reqs |-> IdleReq]
    /\ ls = [s \in Streams |-> NewStream]
    /\ claimsHeld = [t \in TaskIds |-> 0]
    /\ \E np \in DispatchPools, size \in DispatchSizes, opts \in {ScheduleOpts, EnqueueOpts},
          id \in DispatchExecutorIds, fails \in FailPatterns, doneAt \in {2, CtxDoneAt} :
          \* ScheduleTask builds its request without an executor id; the
          \* request of EnqueueTaskReservation carries the id its sender set.
          /\ opts = ScheduleOpts => id = ""
          /\ call = [op |-> "enqueueTaskReservations", pool |-> np, size |-> size, opts |-> opts,
                     executorId |-> id, env |-> [fails |-> fails, doneAt |-> doneAt],
                     err |-> "", loop |-> NewLoop(0, NoNode), rank |-> <<>>]

\* enqueueTaskReservations for task t1: NodeCount, AddUnclaimedTask, the
\* preferred node and the probe loop.
DispatchRun(rank) ==
    /\ call.op = "enqueueTaskReservations"
    /\ LET np == call.pool
           nodeCount == FitCount(np, call.size)
           probeCount == minInt(call.opts.numReplicas, nodeCount)
           preferredNode == FindConnectedExecutorByID(np.connectedExecutors, call.executorId)
           candidates == IF call.opts.alwaysScheduleLocally THEN np.connectedExecutors
                         ELSE np.nodes
           lp == ProbeLoop(NewLoop(probeCount, preferredNode), candidates, call.opts, rank,
                           call.env)
       IN  /\ rank \in Rankings(candidates)
           /\ IF nodeCount = 0
              THEN /\ call' = [call EXCEPT !.op = "done", !.err = "Unavailable"]
                   /\ UNCHANGED unclaimedTasks
              ELSE /\ call' = [call EXCEPT !.op = "done", !.err = lp.err, !.loop = lp,
                                            !.rank = rank]
                   /\ unclaimedTasks' = [unclaimedTasks EXCEPT
                          ![call.size.pool] = AddUnclaimedTask(@, "t1", now)]
    /\ UNCHANGED <<now, store, poolHash, pools, reqs, ls, claimsHeld>>

\* The orders the task router may return, for the candidate lists above.
DispatchRankings == UNION {Rankings([i \in 1..n |-> i]) : n \in 0..4}

NextDispatch == \E rank \in DispatchRankings : DispatchRun(rank)

SpecDispatch == InitDispatch /\ [][NextDispatch]_vars

\* The reservations that were accepted among the probes sent.
Accepted(probes) == Cardinality({i \in 1..Len(probes) : probes[i].ok})

\* The number of nodes of the pool that fit the size, by the fit test.
Fitting(np, size) ==
    Cardinality({i \in 1..Len(np.nodes) :
        /\ np.nodes[i].mem * MaxResourceCapacityRatio >= size.mem
        /\ np.nodes[i].cpu * MaxResourceCapacityRatio >= size.cpu})

\* C14: a call that returns nil has had exactly min(numReplicas, fit count)
\* reservations accepted, 3 replicas for ScheduleTask and 1 for
\* EnqueueTaskReservation, and sent every probe while fewer than that many
\* had been accepted.
C14_ProbeCount ==
    (call.op = "done" /\ call.err = "") =>
        LET fit == Fitting(call.pool, call.size)
            replicas == IF call.opts.alwaysScheduleLocally THEN 1 ELSE 3
            expected == IF replicas < fit THEN replicas ELSE fit
            probes == call.loop.probes
        IN  /\ call.opts.numReplicas = replicas
            /\ Accepted(probes) = expected
            /\ Len(call.loop.reservations) = expected
            /\ \A i \in 1..Len(probes) : Accepted(SubSeq(probes, 1, i - 1)) < expected

\* A ScheduleTask dispatch over a pool where two nodes fit returned nil after
\* one failed probe and two accepted ones.
C14_Witness ==
    /\ call.op = "done" /\ call.err = ""
    /\ ~call.opts.alwaysScheduleLocally
    /\ Fitting(call.pool, call.size) = 2
    /\ Len(call.loop.probes) = 3 /\ Accepted(call.loop.probes) = 2

\* C15: with maxAttempts set the loop makes at most maxAttempts attempts; it
\* returns ResourceExhausted exactly when those attempts did not bring the
\* accepted probes to probeCount; EnqueueTaskReservation gives up after 10
\* failed attempts on its connected executors.
C15_BoundedAttempts ==
    (call.op = "done" /\ call.opts.maxAttempts > 0 /\ Fitting(call.pool, call.size) > 0) =>
        LET lp == call.loop
            max == call.opts.maxAttempts
        IN  /\ Len(lp.probes) <= max
            /\ call.err = "ResourceExhausted"
               => (lp.attempts = max + 1 /\ Accepted(lp.probes) < lp.probeCount)
            /\ call.err = "" => lp.attempts <= max
            /\ (/\ call.opts.alwaysScheduleLocally
                /\ Len(call.pool.connectedExecutors) > 0
                /\ 1..10 \subseteq call.env.fails
                /\ call.env.doneAt > 11)
               => (call.err = "ResourceExhausted" /\ lp.attempts = 11)

\* An EnqueueTaskReservation whose ten probes of connected executors all
\* failed returned ResourceExhausted.
C15_Witness ==
    /\ call.op = "done" /\ call.opts.alwaysScheduleLocally
    /\ call.err = "ResourceExhausted"
    /\ Len(call.loop.probes) = 10 /\ Accepted(call.loop.probes) = 0

\* ----------------------------------------------------------- NodeCount alone
\* One call of NodeCount on a pool: its cache and the time of its last
\* fetch, the executors in the Redis hash of the pool, and the task size.
FitCapacities == {<<1, 1>>, <<1, 2>>, <<2, 1>>, <<2, 2>>}
FitNodeLists(caps) ==
    {<<>>}
    \cup {<<Remote("e1", "B", a[1], a[2])>> : a \in caps}
    \cup {<<Remote("e1", "B", a[1], a[2]), Remote("e2", "B", b[1], b[2])>> : a, b \in caps}
FitSizes == {[pool |-> "p1", hasSize |-> TRUE, mem |-> m, cpu |-> c] : m, c \in 1..3}

\* NodeCount: the refresh, then the count and the status ("": nil).
NodeCount(np, hash, size, t) ==
    LET fresh == RefreshNodes(np, hash, t)
        fitCount == FitCount(fresh, size)
    IN  IF Len(fresh.nodes) = 0 \/ fitCount = 0
        THEN [np |-> fresh, count |-> 0, err |-> "Unavailable"]
        ELSE [np |-> fresh, count |-> fitCount, err |-> ""]

InitFit ==
    /\ now \in 0..MaxTime
    /\ store = [t \in TaskIds |-> NoRow]
    /\ unclaimedTasks = [k \in PoolKeys |-> [t \in TaskIds |-> -1]]
    /\ poolHash = RegisteredNodes
    /\ pools = [sc \in Schedulers |-> [k \in PoolKeys |-> NoPool]]
    /\ reqs = [r \in Reqs |-> IdleReq]
    /\ ls = [s \in Streams |-> NewStream]
    /\ claimsHeld = [t \in TaskIds |-> 0]
    /\ \E cache \in FitNodeLists(FitCapacities), hash \in FitNodeLists({<<1, 1>>, <<3, 3>>}),
          lastFetch \in {-1, 0}, size \in FitSizes :
          call = [op |-> "NodeCount",
                  np |-> [NewNodePool EXCEPT !.nodes = cache, !.lastFetch = lastFetch],
                  hash |-> hash, size |-> size, count |-> 0, err |-> ""]

FitRun ==
    /\ call.op = "NodeCount"
    /\ LET r == NodeCount(call.np, call.hash, call.size, now)
       IN  call' = [call EXCEPT !.op = "done", !.np = r.np, !.count = r.count, !.err = r.err]
    /\ Quiet

SpecFit == InitFit /\ [][FitRun]_vars

\* C16: NodeCount returns the number of executors in the cache of the pool
\* whose memory and cpu, times the ratio, are at least those of the size, and
\* returns Unavailable when the cache is empty or that number is zero.
C16_FitCount ==
    call.op = "done" =>
        LET cache == call.np.nodes
            fits == {i \in 1..Len(cache) :
                        /\ cache[i].mem * MaxResourceCapacityRatio >= call.size.mem
                        /\ cache[i].cpu * MaxResourceCapacityRatio >= call.size.cpu}
        IN  IF Len(cache) = 0 \/ fits = {}
            THEN call.err = "Unavailable"
            ELSE call.err = "" /\ call.count = Cardinality(fits)

\* Of two cached executors one has enough memory and cpu and the other has
\* the memory only: the count is 1.
C16_Witness ==
    /\ call.op = "done" /\ call.err = "" /\ call.count = 1
    /\ Len(call.np.nodes) = 2
    /\ \E i \in 1..2 : /\ call.np.nodes[i].mem >= call.size.mem
                       /\ call.np.nodes[i].cpu < call.size.cpu

\* ------------------------------------------------------ rejected requests
\* A ScheduleTask request that lacks a required field.
MissingField(tid, inp) ==
    tid = "" \/ inp.metadata = NilMeta \/ ~inp.metadata.hasSize \/ inp.payload = ""

\* C17: a ScheduleTask request with an empty task id, no metadata, no task
\* size or an empty serialized task fails with InvalidArgument, writes nothing
\* to the task store and dispatches no probe.
C17_MissingFieldInvalidArgument ==
    [][\A r \in Reqs, tid \in SubmittedIds \cup {""}, inp \in RequestInputs :
          (/\ ScheduleTaskInsert(r, tid, inp.metadata, inp.payload, now)
           /\ MissingField(tid, inp))
          => (/\ reqs'[r].pc = "done" /\ reqs'[r].err = "InvalidArgument"
              /\ store' = store /\ unclaimedTasks' = unclaimedTasks
              /\ pools' = pools)]_vars

\* C18: the task id of a lease stream is the one of its first request; a
\* later request with another task id, or any request with an empty one, ends
\* the stream with InvalidArgument, leaves the task id of the stream and the
\* task store as they are, and claims nothing.
C18_StickyTaskId ==
    [][\A s \in Streams, tid \in TaskIds \cup {""}, fin \in BOOLEAN, late \in BOOLEAN :
          LeaseRecv(s, tid, fin, late) =>
             /\ ls[s].taskID # "" => ls'[s].taskID = ls[s].taskID
             /\ (ls[s].taskID = "" /\ tid # "") => ls'[s].taskID = tid
             /\ (tid = "" \/ (ls[s].taskID # "" /\ tid # ls[s].taskID))
                => (/\ ls'[s].result = "InvalidArgument"
                    /\ ls'[s].pc \in {"done", "defer"}
                    /\ store' = store
                    /\ claimsHeld' = claimsHeld)]_vars

\* A stream that holds the claim of t1 has received a request whose task id
\* is not t1 and has left its loop with InvalidArgument; t1 is still claimed.
C18_Witness ==
    \E s \in Streams :
       /\ ls[s].result = "InvalidArgument" /\ ls[s].taskID = "t1"
       /\ ls[s].pc = "defer"
       /\ store["t1"].hasData /\ store["t1"].claimed

\* C22: a dispatch that is not local sends every probe as an RPC, under
\* the 3 s timeout, to the scheduler that the pool hash names for the
\* executor, and never through a handle; a local dispatch sends every probe
\* through the handle of an executor connected to this scheduler and never
\* as an RPC.
C22_ProbeRoute ==
    call.op = "done" =>
        \A i \in 1..Len(call.loop.probes) :
           LET p == call.loop.probes[i]
           IN  IF call.opts.alwaysScheduleLocally
               THEN /\ p.via = "handle"
                    /\ \E j \in 1..Len(call.pool.connectedExecutors) :
                          /\ call.pool.connectedExecutors[j].executorID = p.executorID
                          /\ call.pool.connectedExecutors[j].handle = TRUE
               ELSE /\ p.via = "rpc" /\ p.timeout = 3
                    /\ \E j \in 1..Len(call.pool.nodes) :
                          /\ call.pool.nodes[j].executorID = p.executorID
                          /\ call.pool.nodes[j].schedulerHostPort = p.uri
                          /\ p.uri # ""

\* A dispatch that is not local has sent a probe for an executor that is
\* connected to this scheduler (A) with a handle, as an RPC to A.
C22_Witness ==
    /\ call.op = "done" /\ ~call.opts.alwaysScheduleLocally
    /\ \E i \in 1..Len(call.loop.probes) :
          /\ call.loop.probes[i].via = "rpc" /\ call.loop.probes[i].uri = "A"
          /\ \E j \in 1..Len(call.pool.connectedExecutors) :
                /\ call.pool.connectedExecutors[j].executorID = call.loop.probes[i].executorID
                /\ call.pool.connectedExecutors[j].handle = TRUE

\* C31: when the executor id of the request resolves to an executor
\* connected to this scheduler, the first attempt of the dispatch goes to that
\* executor and to no other; every later attempt goes to the candidate that
\* the ranked list holds at the position of the sample cursor, as if no
\* preference had been given, and the preference is unset when the call
\* returns. When the id does not resolve, the first attempt already takes
\* the first entry of the ranked list.
C31_PreferredNode ==
    (call.op = "done" /\ Fitting(call.pool, call.size) > 0) =>
        LET lp == call.loop
            connected == call.pool.connectedExecutors
            resolves == /\ call.executorId # ""
                        /\ \E j \in 1..Len(connected) : connected[j].executorID = call.executorId
            candidates == IF call.opts.alwaysScheduleLocally THEN connected ELSE call.pool.nodes
            n == Len(candidates)
            ranked == [i \in 1..n |-> candidates[call.rank[i]]]
            first == IF resolves THEN 2 ELSE 1
        IN  /\ lp.preferredNode = NoNode
            /\ \A i \in 1..Len(lp.probes) :
                  LET p == lp.probes[i]
                  IN  IF resolves /\ p.attempt = 1
                      THEN p.executorID = call.executorId
                      ELSE /\ n > 0
                           /\ p.executorID = ranked[((p.attempt - first) % n) + 1].executorID
            /\ (/\ resolves
                /\ \E j \in 1..Len(connected) :
                      connected[j].executorID = call.executorId /\ connected[j].handle = TRUE)
               => (lp.probes # <<>> /\ lp.probes[1].attempt = 1)

\* A local dispatch whose preferred executor e2 refused the first probe then
\* had its reservation accepted by e3, the first of the ranked list, although
\* e2 is in that list too.
C31_Witness ==
    /\ call.op = "done" /\ call.err = "" /\ call.opts.alwaysScheduleLocally
    /\ call.executorId = "e2"
    /\ Len(call.loop.probes) = 2
    /\ call.loop.probes[1].executorID = "e2" /\ ~call.loop.probes[1].ok
    /\ call.loop.probes[2].executorID = "e3" /\ call.loop.probes[2].ok
    /\ \E j \in 1..Len(call.pool.connectedExecutors) :
          call.pool.connectedExecutors[j].executorID = "e2"

\* C28: a finalize on a claimed stream whose delete script finds the hash
\* gone or unclaimed leaves the store as it is, keeps claimed set, answers
\* with closedCleanly = FALSE and ends the loop; the deferred function then
\* calls ReEnqueueTask for the task.
C28_DoubleFinalize ==
    [][\A s \in Streams :
          LET st == ls[s]
          IN  /\ (/\ LeaseSend(s, TRUE) /\ st.closing /\ st.claimed
                  /\ ~(store[st.taskID].exists /\ store[st.taskID].claimed))
                 => /\ store' = store
                    /\ ls'[s].claimed /\ ls'[s].pc = "defer" /\ ls'[s].result = ""
                    /\ Len(ls'[s].rsps) = Len(st.rsps) + 1
                    /\ ~Last(ls'[s].rsps).closedCleanly
              /\ (st.pc = "defer" /\ ls'[s] # st)
                 => (ls'[s].pc = "done" /\ ls'[s].reEnqueued /\ ls'[s].taskID = st.taskID)]_vars

\* A stream that held the claim has answered a finalize with
\* closedCleanly = FALSE after the hash of its task had gone, and is about to
\* call ReEnqueueTask.
C28_Witness ==
    \E s \in Streams :
       /\ ls[s].pc = "defer" /\ ls[s].closing /\ ls[s].result = ""
       /\ ls[s].rsps # <<>> /\ ~Last(ls[s].rsps).closedCleanly
       /\ ~store[ls[s].taskID].exists

\* C29: a stream that has ended with InvalidArgument (a request with an empty
\* task id, or with another task id than the one of the stream) does not
\* re-enqueue its task, whether or not it holds the claim.
C29_InvalidArgumentNoReEnqueue ==
    \A s \in Streams : ls[s].result = "InvalidArgument" => ~ls[s].reEnqueued

\* C30: after the claim of a stream has succeeded, the task is taken out of
\* the unclaimed set of its pool before the response with the payload is
\* sent, whichever scheduler serves the stream.
C30_ClaimRemovesUnclaimed ==
    [][\A s \in Streams, sc \in Schedulers :
          LeaseRemoveUnclaimed(s, sc)
          => unclaimedTasks'[ls[s].poolKey][ls[s].taskID] < 0]_vars

\* ------------------------------------------------- registration streams
\* The RegisterAndStreamWork streams of one scheduler. call holds the
\* scheduler (its configuration, its shutdown channel, the connected
\* executors of its pools) and its streams; poolHash is the Redis hash of
\* each pool.
RegStreams == {"s1", "s2"}
OwnHostPort == "A"

\* The executors behind the streams: the ExecutionNode that an executor
\* sends in every registration of one stream.
RegNodes ==
    {[executorID |-> "e1", pool |-> "p1"], [executorID |-> "e2", pool |-> "p1"],
     [executorID |-> "e1", pool |-> "p2"]}
NoRegistration == [executorID |-> "", pool |-> "", host |-> ""]

\* What AuthenticateGRPCRequest returns: an error, or a user that has or
\* lacks the capability to register executors.
AuthOutcomes ==
    {[err |-> e, capability |-> TRUE] : e \in {"", "Unauthenticated", "PermissionDenied", "Unavailable"}}
    \cup {[err |-> "", capability |-> FALSE]}

\* authorizeExecutor: the status it returns ("": nil).
authorizeExecutor(cfg, outcome) ==
    IF ~cfg.requireExecutorAuthorization THEN ""
    ELSE IF ~cfg.hasAuthenticator THEN "FailedPrecondition"
    ELSE IF outcome.err # "" THEN outcome.err
    ELSE IF ~outcome.capability THEN "PermissionDenied"
    ELSE ""

\* A context: the only thing the calls look at is whether it is cancelled.
StreamContext(ctx) == ctx
\* A clean-up that runs under the context it is given.
InheritedContext(ctx) == ctx
\* The context of the clean-up: context.Background() with a timeout.
CleanupContext(ctx) == [cancelled |-> FALSE]

AnyError(err) == err # ""
\* The errors of the revalidation that end the stream.
EndsStream(err) == err \in {"PermissionDenied", "Unauthenticated"}

\* checkPreconditions
checkPreconditions(node) == IF node.host = "" THEN "FailedPrecondition" ELSE ""

HasExecutor(list, id) == \E i \in 1..Len(list) : list[i].executorID = id

\* HSET and HDEL of one field of a pool hash; a call with a cancelled
\* context returns the error of the context and changes nothing.
PoolHSet(hash, node, ctx) ==
    IF ctx.cancelled THEN hash
    ELSE IF HasExecutor(hash, node.executorID)
    THEN [i \in 1..Len(hash) |-> IF hash[i].executorID = node.executorID THEN node ELSE hash[i]]
    ELSE Append(hash, node)
PoolHDel(hash, id, ctx) ==
    IF ctx.cancelled THEN hash ELSE SelectSeq(hash, LAMBDA n : n.executorID # id)

\* nodePool.AddConnectedExecutor and nodePool.RemoveConnectedExecutor (the
\* last element takes the place of the removed one).
AddConnected(list, id, handle) ==
    IF HasExecutor(list, id) THEN list
    ELSE Append(list, Local(id, handle, 1, 1))
RemoveConnected(list, id) ==
    IF ~HasExecutor(list, id) THEN list
    ELSE LET i == CHOOSE j \in 1..Len(list) :
                     /\ list[j].executorID = id
                     /\ \A k \in 1..(j - 1) : list[k].executorID # id
             moved == [list EXCEPT ![i] = list[Len(list)]]
         IN  SubSeq(moved, 1, Len(list) - 1)

IdleRegStream ==
    [pc |-> "idle", executor |-> NoRegistration, registeredNode |-> NoRegistration,
     ctx |-> [cancelled |-> FALSE], err |-> "", handoff |-> FALSE, warned |-> FALSE]

InitReg ==
    /\ now = 0
    /\ store = [t \in TaskIds |-> NoRow]
    /\ unclaimedTasks = [k \in PoolKeys |-> [t \in TaskIds |-> -1]]
    /\ poolHash = [k \in PoolKeys |-> <<>>]
    /\ pools = [sc \in Schedulers |-> [k \in PoolKeys |-> NoPool]]
    /\ reqs = [r \in Reqs |-> IdleReq]
    /\ ls = [s \in Streams |-> NewStream]
    /\ claimsHeld = [t \in TaskIds |-> 0]
    /\ \E require \in BOOLEAN, hasAuth \in BOOLEAN :
          call = [op |-> "register",
                  cfg |-> [requireExecutorAuthorization |-> require, hasAuthenticator |-> hasAuth],
                  shuttingDown |-> FALSE,
                  connected |-> [k \in PoolKeys |-> [exists |-> FALSE, connectedExecutors |-> <<>>]],
                  streams |-> [s \in RegStreams |-> IdleRegStream]]

RegQuiet == UNCHANGED <<now, store, unclaimedTasks, pools, reqs, ls, claimsHeld>>

\* processExecutorStream returns err: the deferred function runs next, and
\* returns at once when nothing was registered.
RegReturn(st, err) ==
    [st EXCEPT !.err = err,
               !.pc = IF st.registeredNode = NoRegistration THEN "done" ELSE "remove"]

\* RegisterAndStreamWork: an executor opens a stream.
RegOpen(s, node, outcome) ==
    /\ call.streams[s].pc = "idle"
    /\ ~call.shuttingDown
    /\ LET err == authorizeExecutor(call.cfg, outcome)
           st == [IdleRegStream EXCEPT !.executor = [executorID |-> node.executorID,
                                                     pool |-> node.pool, host |-> "h"]]
       IN  call' = [call EXCEPT !.streams[s] =
                       IF err # "" THEN RegReturn(st, err) ELSE [st EXCEPT !.pc = "open"]]
    /\ UNCHANGED poolHash
    /\ RegQuiet

\* The server closes its shuttingDown channel.
RegShutdown ==
    /\ ~call.shuttingDown
    /\ call' = [call EXCEPT !.shuttingDown = TRUE]
    /\ UNCHANGED poolHash
    /\ RegQuiet

\* case <-s.shuttingDown
RegShuttingDown(s) ==
    /\ call.streams[s].pc = "open"
    /\ call.shuttingDown
    /\ call' = [call EXCEPT !.streams[s] = RegReturn(@, "Canceled")]
    /\ UNCHANGED poolHash
    /\ RegQuiet

\* case err := <-errChan: RecvRegistration has failed, with the context of
\* the stream cancelled (the client has gone) or not.
RegRecvError(s, cancelled) ==
    /\ call.streams[s].pc = "open"
    /\ call' = [call EXCEPT !.streams[s] =
                   RegReturn([@ EXCEPT !.ctx = [cancelled |-> cancelled]],
                             IF cancelled THEN "Canceled" ELSE "Unavailable")]
    /\ UNCHANGED poolHash
    /\ RegQuiet

\* case registration, ok := <-registrationChan with ok false: io.EOF.
RegRecvEOF(s) ==
    /\ call.streams[s].pc = "open"
    /\ call' = [call EXCEPT !.streams[s] = RegReturn(@, "")]
    /\ UNCHANGED poolHash
    /\ RegQuiet

\* case registration, ok := <-registrationChan with a registration:
\* AddConnectedExecutor (insertOrUpdateNode, getOrCreatePool,
\* pool.AddConnectedExecutor, and the hand-off of work to a new executor).
RegRegistration(s, valid) ==
    /\ call.streams[s].pc = "open"
    /\ LET st == call.streams[s]
           registration == [st.executor EXCEPT !.host = IF valid THEN "h" ELSE ""]
           k == registration.pool
           id == registration.executorID
           list == call.connected[k].connectedExecutors
       IN  IF checkPreconditions(registration) # ""
           THEN /\ call' = [call EXCEPT !.streams[s] = RegReturn(st, checkPreconditions(registration))]
                /\ UNCHANGED poolHash
           ELSE /\ poolHash' = [poolHash EXCEPT ![k] =
                                   PoolHSet(@, Remote(id, OwnHostPort, 1, 1), StreamContext(st.ctx))]
                /\ call' = [call EXCEPT
                      !.connected[k] = [exists |-> TRUE,
                                        connectedExecutors |-> AddConnected(list, id, s)],
                      !.streams[s] = [st EXCEPT !.registeredNode = registration,
                                                !.handoff = @ \/ ~HasExecutor(list, id)]]
    /\ RegQuiet

\* case <-checkCredentialsTicker.C
RegTick(s, outcome) ==
    /\ call.streams[s].pc = "open"
    /\ LET err == authorizeExecutor(call.cfg, outcome)
       IN  call' = [call EXCEPT !.streams[s] =
                       IF err = "" THEN @
                       ELSE IF EndsStream(err) THEN RegReturn(@, err)
                       ELSE [@ EXCEPT !.warned = TRUE]]
    /\ UNCHANGED poolHash
    /\ RegQuiet

\* The deferred RemoveConnectedExecutor: getPool and
\* pool.RemoveConnectedExecutor.
RegRemoveConnected(s) ==
    /\ call.streams[s].pc = "remove"
    /\ LET node == call.streams[s].registeredNode
           k == node.pool
       IN  call' = [call EXCEPT
              !.connected[k].connectedExecutors =
                  IF call.connected[k].exists THEN RemoveConnected(@, node.executorID) ELSE @,
              !.streams[s].pc = "delete"]
    /\ UNCHANGED poolHash
    /\ RegQuiet

\* The deferred RemoveConnectedExecutor: deleteNode under the context of the
\* clean-up.
RegDeleteNode(s) ==
    /\ call.streams[s].pc = "delete"
    /\ LET node == call.streams[s].registeredNode
           ctx == CleanupContext(call.streams[s].ctx)
       IN  poolHash' = [poolHash EXCEPT ![node.pool] =
                           IF checkPreconditions(node) # "" THEN @
                           ELSE PoolHDel(@, node.executorID, ctx)]
    /\ call' = [call EXCEPT !.streams[s].pc = "done"]
    /\ RegQuiet

\* The call has returned; the executor may open its next stream.
RegClose(s) ==
    /\ call.streams[s].pc = "done"
    /\ call' = [call EXCEPT !.streams[s] = IdleRegStream]
    /\ UNCHANGED poolHash
    /\ RegQuiet

NextReg ==
    \/ \E s \in RegStreams, node \in RegNodes, outcome \in AuthOutcomes : RegOpen(s, node, outcome)
    \/ RegShutdown
    \/ \E s \in RegStreams : RegShuttingDown(s)
    \/ \E s \in RegStreams, cancelled \in BOOLEAN : RegRecvError(s, cancelled)
    \/ \E s \in RegStreams : RegRecvEOF(s)
    \/ \E s \in RegStreams, valid \in BOOLEAN : RegRegistration(s, valid)
    \/ \E s \in RegStreams, outcome \in AuthOutcomes : RegTick(s, outcome)
    \/ \E s \in RegStreams : RegRemoveConnected(s)
    \/ \E s \in RegStreams : RegDeleteNode(s)
    \/ \E s \in RegStreams : RegClose(s)

SpecReg == InitReg /\ [][NextReg]_vars

\* C19: a registration stream that ends, for whatever reason, after it has
\* registered an executor goes on to its clean-up; the clean-up takes the
\* executor out of the connected list of its pool and then deletes its field
\* of the pool hash, also when the context of the stream is cancelled.
C19_RegistrationCleanup ==
    [][\A s \in RegStreams :
          LET st == call.streams[s]
              st2 == call'.streams[s]
              node == st.registeredNode
          IN  /\ (st.pc = "open" /\ st2.pc # "open" /\ st2.registeredNode # NoRegistration)
                 => st2.pc = "remove"
              /\ (st.pc = "remove" /\ st2.pc # "remove")
                 => /\ st2.pc = "delete"
                    /\ ~HasExecutor(call'.connected[node.pool].connectedExecutors, node.executorID)
              /\ (st.pc = "delete" /\ st2.pc # "delete")
                 => /\ st2.pc = "done"
                    /\ ~HasExecutor(poolHash'[node.pool], node.executorID)]_vars

\* A stream whose context was cancelled after it had registered an executor
\* has returned, and the executor is neither connected nor in the pool hash.
C19_Witness ==
    \E s \in RegStreams :
       LET st == call.streams[s]
       IN  /\ call.op = "register" /\ st.pc = "done"
           /\ st.registeredNode # NoRegistration /\ st.ctx.cancelled
           /\ ~HasExecutor(call.connected[st.registeredNode.pool].connectedExecutors,
                           st.registeredNode.executorID)
           /\ ~HasExecutor(poolHash[st.registeredNode.pool], st.registeredNode.executorID)

\* C20: at a revalidation of the credentials of an open stream, an
\* Unauthenticated or PermissionDenied result (a missing capability included)
\* ends the stream with that status and starts the clean-up of a registered
\* executor; any other error leaves the stream open and the executor
\* registered.
C20_CredentialRevalidation ==
    [][\A s \in RegStreams, outcome \in AuthOutcomes :
          (RegTick(s, outcome) /\ call.cfg.requireExecutorAuthorization
                               /\ call.cfg.hasAuthenticator)
          => LET st == call.streams[s]
                 st2 == call'.streams[s]
                 status == IF outcome.err # "" THEN outcome.err
                           ELSE IF ~outcome.capability THEN "PermissionDenied" ELSE ""
             IN  /\ status \in {"PermissionDenied", "Unauthenticated"}
                    => /\ st2.err = status
                       /\ st2.pc = IF st.registeredNode = NoRegistration THEN "done" ELSE "remove"
                 /\ status \notin {"PermissionDenied", "Unauthenticated"}
                    => /\ st2.pc = "open" /\ st2.registeredNode = st.registeredNode
                       /\ call'.connected = call.connected /\ poolHash' = poolHash]_vars

\* A stream that had registered an executor, and had kept it after a
\* revalidation failed with another error, has been ended by a revalidation
\* with PermissionDenied.
C20_Witness ==
    \E s \in RegStreams :
       LET st == call.streams[s]
       IN  /\ call.op = "register" /\ st.pc = "remove" /\ st.err = "PermissionDenied"
           /\ st.registeredNode # NoRegistration /\ st.warned

\* C35: while a registration stream that has registered an executor is
\* open, the executor is in the connected list of its pool with the handle
\* of an open stream, and its field is in the pool hash; also when a second
\* stream registers the same executor while an older one is ending.
C35_OpenStreamStaysConnected ==
    call.op = "register" =>
        \A s \in RegStreams :
           LET st == call.streams[s]
               node == st.registeredNode
               list == call.connected[node.pool].connectedExecutors
           IN  (st.pc = "open" /\ node # NoRegistration)
               => /\ \E i \in 1..Len(list) :
                        /\ list[i].executorID = node.executorID
                        /\ call.streams[list[i].handle].pc = "open"
                  /\ HasExecutor(poolHash[node.pool], node.executorID)

\* One stream whose executor changes what it registers: the next
\* registration that RecvRegistration returns names another executor id or
\* another pool than the last one.
ReRegStream == "s1"

RegNewNode(s, node) ==
    /\ call.streams[s].pc = "open"
    /\ <<node.executorID, node.pool>> #
          <<call.streams[s].executor.executorID, call.streams[s].executor.pool>>
    /\ call' = [call EXCEPT !.streams[s].executor =
                    [executorID |-> node.executorID, pool |-> node.pool, host |-> "h"]]
    /\ UNCHANGED poolHash
    /\ RegQuiet

NextReRegister ==
    LET s == ReRegStream
    IN  \/ \E node \in RegNodes, outcome \in AuthOutcomes : RegOpen(s, node, outcome)
        \/ \E node \in RegNodes : RegNewNode(s, node)
        \/ RegShutdown
        \/ RegShuttingDown(s)
        \/ \E cancelled \in BOOLEAN : RegRecvError(s, cancelled)
        \/ RegRecvEOF(s)
        \/ \E valid \in BOOLEAN : RegRegistration(s, valid)
        \/ \E outcome \in AuthOutcomes : RegTick(s, outcome)
        \/ RegRemoveConnected(s)
        \/ RegDeleteNode(s)
        \/ RegClose(s)

SpecReRegister == InitReg /\ [][NextReRegister]_vars

\* C36: once the only registration stream of a scheduler has ended and its
\* clean-up has run, no executor that it registered is left in a connected
\* list or in a pool hash, whatever executor ids and pools its registrations
\* named.
C36_CleanupRemovesAll ==
    (call.op = "register" /\ call.streams[ReRegStream].pc = "done") =>
        \A k \in PoolKeys :
           /\ call.connected[k].connectedExecutors = <<>>
           /\ poolHash[k] = <<>>

\* ------------------------------------------------------ hand-off on join
\* An executor registers on a pool whose unclaimed set holds some task ids,
\* while tasks are deleted by other streams. JoinLimit stands for
\* tasksToEnqueueOnJoin (20).
JoinLimit == 2
JoinMembers == {"t1", "t2", "t3", "t4"}
JoinPool == "p1"

\* rand.Shuffle followed by unclaimed[:minInt(n, len(unclaimed))]: the first
\* elements of any order of the members.
SampleUnclaimedTasks(zset, n) ==
    LET k == minInt(n, Cardinality(zset))
    IN  {sq \in [1..k -> zset] : \A i, j \in 1..k : sq[i] = sq[j] => i = j}

\* A readTasks that returns a task for every id.
readTasksAll(taskIDs, rows) == taskIDs
\* readTasks: the ids whose readTask returns a task; the others are skipped.
readTasks(taskIDs, rows) == SelectSeq(taskIDs, LAMBDA t : t \in rows)

InitJoin ==
    /\ now = 0
    /\ store = [t \in TaskIds |-> NoRow]
    /\ unclaimedTasks = [k \in PoolKeys |-> [t \in TaskIds |-> -1]]
    /\ poolHash = [k \in PoolKeys |-> <<>>]
    /\ pools = [sc \in Schedulers |-> [k \in PoolKeys |-> NoPool]]
    /\ reqs = [r \in Reqs |-> IdleReq]
    /\ ls = [s \in Streams |-> NewStream]
    /\ claimsHeld = [t \in TaskIds |-> 0]
    /\ \E zset \in SUBSET JoinMembers, rows \in SUBSET JoinMembers,
          connected \in {<<>>, <<Local("e1", "s0", 1, 1)>>, <<Local("e2", "s0", 1, 1)>>} :
          call = [op |-> "join", pc |-> "open", zset |-> zset, rows |-> rows,
                  connectedExecutors |-> connected, newExecutor |-> FALSE,
                  sampled |-> <<>>, rowsRead |-> {}, tasks |-> <<>>, sent |-> <<>>,
                  err |-> ""]

JoinQuiet == UNCHANGED <<now, store, unclaimedTasks, pools, reqs, ls, claimsHeld>>

\* AddConnectedExecutor for a registration of executor e1 on stream s1:
\* insertOrUpdateNode, pool.AddConnectedExecutor, and the goroutine of
\* assignWorkToNode when the executor is new.
JoinRegister ==
    /\ call.op = "join" /\ call.pc = "open"
    /\ poolHash' = [poolHash EXCEPT ![JoinPool] =
                       PoolHSet(@, Remote("e1", OwnHostPort, 1, 1), [cancelled |-> FALSE])]
    /\ LET newExecutor == ~HasExecutor(call.connectedExecutors, "e1")
       IN  call' = [call EXCEPT
              !.connectedExecutors = AddConnected(@, "e1", "s1"),
              !.newExecutor = newExecutor,
              !.pc = IF newExecutor THEN "sample" ELSE "done"]
    /\ JoinQuiet

\* assignWorkToNode: nodePool.SampleUnclaimedTasks.
JoinSample(sample) ==
    /\ call.op = "join" /\ call.pc = "sample"
    /\ sample \in SampleUnclaimedTasks(call.zset, JoinLimit)
    /\ call' = [call EXCEPT !.sampled = sample, !.pc = "read"]
    /\ UNCHANGED poolHash
    /\ JoinQuiet

\* assignWorkToNode: readTasks; nothing is sent when no task is left.
JoinRead ==
    /\ call.op = "join" /\ call.pc = "read"
    /\ LET tasks == readTasks(call.sampled, call.rows)
       IN  call' = [call EXCEPT !.tasks = tasks, !.rowsRead = call.rows,
                                !.pc = IF Len(tasks) = 0 THEN "done" ELSE "send"]
    /\ UNCHANGED poolHash
    /\ JoinQuiet

\* assignWorkToNode: handle.EnqueueTaskReservation for the next task; an
\* error ends the hand-off.
JoinSend(ok) ==
    /\ call.op = "join" /\ call.pc = "send"
    /\ LET next == call.tasks[Len(call.sent) + 1]
       IN  call' = IF ~ok THEN [call EXCEPT !.pc = "done", !.err = "Unavailable"]
                   ELSE [call EXCEPT !.sent = Append(@, next),
                                     !.pc = IF Len(call.sent) + 1 = Len(call.tasks)
                                            THEN "done" ELSE "send"]
    /\ UNCHANGED poolHash
    /\ JoinQuiet

\* Another stream deletes the hash of a task (deleteClaimedTask), or the
\* hash expires.
JoinDeleteRow(t) ==
    /\ call.op = "join" /\ call.pc # "done"
    /\ t \in call.rows
    /\ call' = [call EXCEPT !.rows = @ \ {t}]
    /\ UNCHANGED poolHash
    /\ JoinQuiet

NextJoin ==
    \/ JoinRegister
    \/ \E sample \in UNION {[1..k -> JoinMembers] : k \in 0..JoinLimit} : JoinSample(sample)
    \/ JoinRead
    \/ \E ok \in BOOLEAN : JoinSend(ok)
    \/ \E t \in JoinMembers : JoinDeleteRow(t)

SpecJoin == InitJoin /\ [][NextJoin]_vars

\* C21: a registration of an executor that was not connected sends it
\* reservations for distinct ids of the unclaimed set, at most
\* min(tasksToEnqueueOnJoin, size of the set) of them, none for an id whose
\* hash was gone when it was read, and one for every sampled id whose hash
\* was there when no send fails; a registration of a connected executor
\* sends none.
C21_HandoffOnJoin ==
    LET sent == call.sent
        small == IF JoinLimit < Cardinality(call.zset) THEN JoinLimit
                 ELSE Cardinality(call.zset)
    IN  /\ Len(sent) <= small
        /\ \A i, j \in 1..Len(sent) : sent[i] = sent[j] => i = j
        /\ \A i \in 1..Len(sent) : sent[i] \in call.zset /\ sent[i] \in call.rowsRead
        /\ (call.pc = "done" /\ call.newExecutor /\ call.err = "")
           => /\ Len(call.sampled) = small
              /\ {sent[i] : i \in 1..Len(sent)}
                    = {call.sampled[i] : i \in 1..Len(call.sampled)} \cap call.rowsRead
        /\ (call.pc = "done" /\ ~call.newExecutor) => sent = <<>> /\ call.sampled = <<>>

\* The set held more ids than the limit; of the ids sampled, one had lost
\* its hash and the executor got a reservation for the other.
C21_Witness ==
    /\ call.op = "join" /\ call.pc = "done" /\ call.newExecutor
    /\ Cardinality(call.zset) > JoinLimit
    /\ Len(call.sampled) = JoinLimit
    /\ Len(call.sent) = JoinLimit - 1
    /\ call.err = ""

\* --------------------------------------------------- schedulerClientCache
\* The cache of clients to the other schedulers and its expirer; the time
\* is in minutes.
CacheMaxTime == 7
CacheAddrs == {"A:1", "B:1"}
unusedSchedulerClientExpiration == 5
unusedSchedulerClientCheckInterval == 1

\* The zero value of time.Time; time.Now().Sub of it is the largest Duration.
ZeroTime == -1000000
NoClient == [present |-> FALSE, lastAccess |-> ZeroTime]

InitCache ==
    /\ now = 0
    /\ store = [t \in TaskIds |-> NoRow]
    /\ unclaimedTasks = [k \in PoolKeys |-> [t \in TaskIds |-> -1]]
    /\ poolHash = [k \in PoolKeys |-> <<>>]
    /\ pools = [sc \in Schedulers |-> [k \in PoolKeys |-> NoPool]]
    /\ reqs = [r \in Reqs |-> IdleReq]
    /\ ls = [s \in Streams |-> NewStream]
    /\ claimsHeld = [t \in TaskIds |-> 0]
    /\ call = [op |-> "cache", time |-> 0, sweepDue |-> TRUE,
               clients |-> [a \in CacheAddrs |-> NoClient],
               \* what the callers of get have seen: the time of the last
               \* get of each address (-1: none), whether it dialed, and the
               \* lastAccess of the client it returned
               lastGet |-> [a \in CacheAddrs |-> -1],
               dialed |-> [a \in CacheAddrs |-> FALSE],
               returned |-> [a \in CacheAddrs |-> ZeroTime]]

\* One minute passes; the expirer wakes from its sleep before the next.
CacheTick ==
    /\ call.op = "cache" /\ ~call.sweepDue
    /\ call.time < CacheMaxTime
    /\ call' = [call EXCEPT !.time = @ + unusedSchedulerClientCheckInterval, !.sweepDue = TRUE]
    /\ Quiet

\* startExpirer: one pass of the loop over c.clients.
CacheSweep ==
    /\ call.op = "cache" /\ call.sweepDue
    /\ call' = [call EXCEPT
          !.sweepDue = FALSE,
          !.clients = [a \in CacheAddrs |->
              IF /\ call.clients[a].present
                 /\ call.time - call.clients[a].lastAccess > unusedSchedulerClientExpiration
              THEN NoClient ELSE call.clients[a]]]
    /\ Quiet

\* get: the client of the map, or a new one that is stored in the map; the
\* time of the access is set in the copy that is returned.
CacheGet(a) ==
    /\ call.op = "cache"
    /\ LET ok == call.clients[a].present
           client == IF ok THEN call.clients[a]
                     ELSE [present |-> TRUE, lastAccess |-> ZeroTime]
       IN  call' = [call EXCEPT
              !.clients[a] = client,
              !.lastGet[a] = call.time,
              !.dialed[a] = ~ok,
              !.returned[a] = call.time]
    /\ Quiet

NextCache ==
    \/ CacheTick
    \/ CacheSweep
    \/ \E a \in CacheAddrs : CacheGet(a)

SpecCache == InitCache /\ [][NextCache]_vars

\* C23: a pass of the expirer evicts a client only when its last get is more
\* than 5 minutes old; a client that was got within the last 5 minutes stays
\* in the cache, and the next get of its address returns it without a dial.
C23_ClientCacheExpiry ==
    [][/\ CacheSweep =>
            \A a \in CacheAddrs :
               call.clients[a].present
               => (call'.clients[a].present
                      <=> call.time - call.lastGet[a] <= unusedSchedulerClientExpiration)
       /\ \A a \in CacheAddrs :
             (/\ CacheGet(a) /\ call.lastGet[a] >= 0
              /\ call.time - call.lastGet[a] <= unusedSchedulerClientExpiration)
             => ~call'.dialed[a]]_vars

\* ------------------------------------------- the operations on one task
\* One call of claimTask, unclaimTask, deleteClaimedTask or ReEnqueueTask
\* for task t1, on every shape of its hash: absent, created by HINCRBY alone,
\* or written by insertTask, then claimed and counted or not.
OpTask == "t1"
OpRows ==
    {NoRow}
    \cup {[NoRow EXCEPT !.exists = TRUE, !.attemptCount = n] : n \in 1..2}
    \cup {[exists |-> TRUE, hasData |-> TRUE, payload |-> "x", metadata |-> Meta1,
           queuedAt |-> q, attemptCount |-> n, claimed |-> c, ttl |-> l] :
             q \in 0..1, n \in 0..maxTaskAttemptCount, c \in BOOLEAN, l \in BOOLEAN}
OpNames == {"claimTask", "unclaimTask", "deleteClaimedTask", "ReEnqueueTask"}

InitOps ==
    /\ now = 0
    /\ \E row \in OpRows, fn \in OpNames :
          /\ store = [t \in TaskIds |-> IF t = OpTask THEN row ELSE NoRow]
          /\ call = [op |-> fn, fn |-> fn, before |-> row, err |-> ""]
    /\ unclaimedTasks = [k \in PoolKeys |-> [t \in TaskIds |-> -1]]
    /\ poolHash = RegisteredNodes
    /\ pools = [sc \in Schedulers |-> [k \in PoolKeys |-> NoPool]]
    /\ reqs = [r \in Reqs |-> IdleReq]
    /\ ls = [s \in Streams |-> NewStream]
    /\ claimsHeld = [t \in TaskIds |-> 0]

OpsQuiet == UNCHANGED <<now, reqs, ls, claimsHeld>>

\* claimTask: the claim script, and the HINCRBY when it returned 1.
OpClaimTask ==
    /\ call.op = "claimTask"
    /\ LET row == store[OpTask]
       IN  IF AcquireClaimOk(row)
           THEN /\ store' = [store EXCEPT ![OpTask] = HIncrAttempt(AcquireClaim(row))]
                /\ call' = [call EXCEPT !.op = "done"]
           ELSE /\ store' = [store EXCEPT ![OpTask] = AcquireClaim(row)]
                /\ call' = [call EXCEPT !.op = "done", !.err = "NotFound"]
    /\ UNCHANGED <<unclaimedTasks, poolHash, pools>>
    /\ OpsQuiet

\* unclaimTask
OpUnclaimTask ==
    /\ call.op = "unclaimTask"
    /\ store' = [store EXCEPT ![OpTask] = ReleaseClaim(@)]
    /\ call' = [call EXCEPT !.op = "done",
                            !.err = IF ReleaseClaimOk(store[OpTask]) THEN "" ELSE "NotFound"]
    /\ UNCHANGED <<unclaimedTasks, poolHash, pools>>
    /\ OpsQuiet

\* deleteClaimedTask
OpDeleteClaimedTask ==
    /\ call.op = "deleteClaimedTask"
    /\ store' = [store EXCEPT ![OpTask] = DeleteClaimed(@)]
    /\ call' = [call EXCEPT !.op = "done",
                            !.err = IF DeleteClaimedOk(store[OpTask]) THEN "" ELSE "NotFound"]
    /\ UNCHANGED <<unclaimedTasks, poolHash, pools>>
    /\ OpsQuiet

\* The ReEnqueueTask RPC: it returns an empty response.
OpReEnqueueTask ==
    /\ call.op = "ReEnqueueTask"
    /\ ReEnqueueTask(OpTask)
    /\ call' = [call EXCEPT !.op = "done"]
    /\ OpsQuiet

NextOps == OpClaimTask \/ OpUnclaimTask \/ OpDeleteClaimedTask \/ OpReEnqueueTask

SpecOps == InitOps /\ [][NextOps]_vars

\* C24: ReEnqueueTask for a stored task with attemptCount below
\* maxTaskAttemptCount clears the claimed field, leaves the other fields as
\* they were, and dispatches the task (the task is in the unclaimed set of
\* its pool afterwards).
C24_ReEnqueuePerformsSteps ==
    (/\ call.op = "done" /\ call.fn = "ReEnqueueTask"
     /\ call.before.hasData /\ call.before.attemptCount < maxTaskAttemptCount)
    => /\ store[OpTask] = [call.before EXCEPT !.claimed = FALSE]
       /\ unclaimedTasks[call.before.metadata.pool][OpTask] >= 0

\* C25: claimTask on a hash that is absent or claimed, unclaimTask and
\* deleteClaimedTask on a hash that is absent or not claimed, return NotFound
\* and leave the task store as it was; on every other hash they return nil.
C25_GuardedMutations ==
    (call.op = "done" /\ call.fn # "ReEnqueueTask")
    => LET row == call.before
           refused == IF call.fn = "claimTask" THEN ~row.exists \/ row.claimed
                      ELSE ~row.exists \/ ~row.claimed
       IN  /\ call.err = IF refused THEN "NotFound" ELSE ""
           /\ refused => store = [t \in TaskIds |-> IF t = OpTask THEN row ELSE NoRow]

\* deleteClaimedTask has returned NotFound for a stored task that is not
\* claimed, and the task is still stored.
C25_Witness ==
    /\ call.op = "done" /\ call.fn = "deleteClaimedTask" /\ call.err = "NotFound"
    /\ call.before.hasData /\ ~call.before.claimed
    /\ store[OpTask].hasData

\* ------------------------------------------------- the mutex of a pool
\* The goroutines that use one nodePool: two dispatchers in
\* enqueueTaskReservations and a registration stream that adds and removes
\* executor e1. call.mu is the holder of np.mu ("": unlocked); the pc of a
\* goroutine names the access to the fields of the pool that it makes next.
Dispatchers == {"d1", "d2"}
Registrars == {"g1"}
PoolThreads == Dispatchers \cup Registrars
LockPool == "p1"
IdleThread == [pc |-> "idle", fetched |-> <<>>, seen |-> <<>>, count |-> 0, local |-> FALSE]

\* The pcs at which a goroutine reads, and at which it writes, np.nodes,
\* np.lastFetch or np.connectedExecutors.
PoolReads == {"refresh", "len", "loop", "finding", "sample"}
PoolWrites == {"write", "append", "swap"}

InitLock ==
    /\ now = 0
    /\ store = [t \in TaskIds |-> NoRow]
    /\ unclaimedTasks = [k \in PoolKeys |-> [t \in TaskIds |-> -1]]
    /\ poolHash = RegisteredNodes
    /\ pools = [sc \in Schedulers |-> [k \in PoolKeys |-> NoPool]]
    /\ reqs = [r \in Reqs |-> IdleReq]
    /\ ls = [s \in Streams |-> NewStream]
    /\ claimsHeld = [t \in TaskIds |-> 0]
    /\ call = [op |-> "pool", mu |-> "", np |-> NewNodePool, connectedExecutors |-> <<>>,
               th |-> [p \in PoolThreads |-> IdleThread]]

LockQuiet == UNCHANGED <<store, unclaimedTasks, pools, reqs, ls, claimsHeld>>

\* The goroutine that is inside a write of np.nodes, if any, and the values
\* that a read of np.nodes without the mutex can return: the slice that is
\* stored, or the slice that the writer is storing.
NodesReadUnlocked(p) ==
    {call.np.nodes}
    \cup {call.th[q].fetched : q \in {w \in PoolThreads \ {p} : call.th[w].pc = "write"}}
ConnectedReadUnlocked(p) ==
    {call.connectedExecutors}
    \cup {AddConnected(call.connectedExecutors, "e1", TRUE) :
             q \in {w \in PoolThreads \ {p} : call.th[w].pc = "append"}}
    \cup {RemoveConnected(call.connectedExecutors, "e1") :
             q \in {w \in PoolThreads \ {p} : call.th[w].pc = "swap"}}

\* time.Now advances.
LockTick ==
    /\ call.op = "pool" /\ now < MaxTime
    /\ now' = now + 1
    /\ UNCHANGED <<poolHash, call>>
    /\ LockQuiet

\* enqueueTaskReservations begins, for ScheduleTask or for
\* EnqueueTaskReservation: NodeCount calls RefreshNodes, which locks np.mu.
DispatchLock(p, local) ==
    /\ call.th[p].pc = "idle" /\ call.mu = ""
    /\ call' = [call EXCEPT !.mu = p, !.th[p] = [IdleThread EXCEPT !.pc = "refresh", !.local = local]]
    /\ UNCHANGED <<now, poolHash>>
    /\ LockQuiet

\* RefreshNodes: the test of lastFetch and len(np.nodes); it returns (and
\* unlocks) or fetches the pool hash.
DispatchRefresh(p) ==
    /\ call.th[p].pc = "refresh"
    /\ call' = IF /\ call.np.lastFetch > now - maxAllowedExecutionNodesStaleness
                  /\ Len(call.np.nodes) > 0
               THEN [call EXCEPT !.mu = "", !.th[p].pc = "len"]
               ELSE [call EXCEPT !.th[p].pc = "write", !.th[p].fetched = poolHash[LockPool]]
    /\ UNCHANGED <<now, poolHash>>
    /\ LockQuiet

\* RefreshNodes: np.nodes = nodes, np.lastFetch = time.Now(), unlock.
DispatchWrite(p) ==
    /\ call.th[p].pc = "write"
    /\ call' = [call EXCEPT !.np = [@ EXCEPT !.nodes = call.th[p].fetched, !.lastFetch = now],
                            !.mu = "", !.th[p].pc = "len", !.th[p].fetched = <<>>]
    /\ UNCHANGED <<now, poolHash>>
    /\ LockQuiet

\* NodeCount: len(np.nodes) == 0, after RefreshNodes has returned.
DispatchLen(p, nodes) ==
    /\ call.th[p].pc = "len"
    /\ nodes \in NodesReadUnlocked(p)
    /\ call' = [call EXCEPT !.th[p] = IF Len(nodes) = 0 THEN IdleThread
                                      ELSE [@ EXCEPT !.pc = "loop"]]
    /\ UNCHANGED <<now, poolHash>>
    /\ LockQuiet

\* NodeCount: the loop over np.nodes.
DispatchLoop(p, nodes) ==
    /\ call.th[p].pc = "loop"
    /\ nodes \in NodesReadUnlocked(p)
    /\ LET fitCount == FitLoop(nodes, Meta1)
       IN  call' = [call EXCEPT !.th[p] = IF fitCount = 0 THEN IdleThread
                                          ELSE [@ EXCEPT !.pc = "find", !.count = fitCount]]
    /\ UNCHANGED <<now, poolHash>>
    /\ LockQuiet

\* FindConnectedExecutorByID locks np.mu ...
DispatchFindLock(p) ==
    /\ call.th[p].pc = "find" /\ call.mu = ""
    /\ call' = [call EXCEPT !.mu = p, !.th[p].pc = "finding"]
    /\ UNCHANGED <<now, poolHash>>
    /\ LockQuiet

\* ... and reads np.connectedExecutors (the request names no executor).
DispatchFind(p) ==
    /\ call.th[p].pc = "finding"
    /\ call' = [call EXCEPT !.mu = "", !.th[p].pc = "sample"]
    /\ UNCHANGED <<now, poolHash>>
    /\ LockQuiet

\* The probe loop: nodes = nodeBalancer.nodes, or
\* nodeBalancer.connectedExecutors when scheduling locally.
DispatchSample(p, nodes) ==
    /\ call.th[p].pc = "sample"
    /\ nodes \in (IF call.th[p].local THEN ConnectedReadUnlocked(p) ELSE NodesReadUnlocked(p))
    /\ call' = [call EXCEPT !.th[p] = [IdleThread EXCEPT !.pc = "probe", !.seen = nodes]]
    /\ UNCHANGED <<now, poolHash>>
    /\ LockQuiet

\* The probes are sent and enqueueTaskReservations returns.
DispatchReturn(p) ==
    /\ call.th[p].pc = "probe"
    /\ call' = [call EXCEPT !.th[p] = IdleThread]
    /\ UNCHANGED <<now, poolHash>>
    /\ LockQuiet

\* AddConnectedExecutor: insertOrUpdateNode, then pool.AddConnectedExecutor
\* locks np.mu ...
RegistrarAddLock(p) ==
    /\ call.th[p].pc = "idle" /\ call.mu = ""
    /\ ~HasExecutor(call.connectedExecutors, "e1")
    /\ poolHash' = [poolHash EXCEPT ![LockPool] =
                       PoolHSet(@, Remote("e1", OwnHostPort, 1, 1), [cancelled |-> FALSE])]
    /\ call' = [call EXCEPT !.mu = p, !.th[p].pc = "append"]
    /\ UNCHANGED now
    /\ LockQuiet

\* ... and appends to np.connectedExecutors.
RegistrarAdd(p) ==
    /\ call.th[p].pc = "append"
    /\ call' = [call EXCEPT !.connectedExecutors = AddConnected(@, "e1", TRUE),
                            !.mu = "", !.th[p].pc = "idle"]
    /\ UNCHANGED <<now, poolHash>>
    /\ LockQuiet

\* RemoveConnectedExecutor: pool.RemoveConnectedExecutor locks np.mu ...
RegistrarRemoveLock(p) ==
    /\ call.th[p].pc = "idle" /\ call.mu = ""
    /\ HasExecutor(call.connectedExecutors, "e1")
    /\ call' = [call EXCEPT !.mu = p, !.th[p].pc = "swap"]
    /\ UNCHANGED <<now, poolHash>>
    /\ LockQuiet

\* ... and takes the executor out of np.connectedExecutors; deleteNode.
RegistrarRemove(p) ==
    /\ call.th[p].pc = "swap"
    /\ call' = [call EXCEPT !.connectedExecutors = RemoveConnected(@, "e1"),
                            !.mu = "", !.th[p].pc = "idle"]
    /\ poolHash' = [poolHash EXCEPT ![LockPool] = PoolHDel(@, "e1", [cancelled |-> FALSE])]
    /\ UNCHANGED now
    /\ LockQuiet

LockNodeLists == {poolHash[LockPool], call.np.nodes, call.connectedExecutors}
                    \cup {call.th[q].fetched : q \in PoolThreads}
                    \cup {AddConnected(call.connectedExecutors, "e1", TRUE),
                          RemoveConnected(call.connectedExecutors, "e1")}

NextLock ==
    \/ LockTick
    \/ \E p \in Dispatchers, local \in BOOLEAN : DispatchLock(p, local)
    \/ \E p \in Dispatchers : DispatchRefresh(p)
    \/ \E p \in Dispatchers : DispatchWrite(p)
    \/ \E p \in Dispatchers, nodes \in LockNodeLists : DispatchLen(p, nodes)
    \/ \E p \in Dispatchers, nodes \in LockNodeLists : DispatchLoop(p, nodes)
    \/ \E p \in Dispatchers : DispatchFindLock(p)
    \/ \E p \in Dispatchers : DispatchFind(p)
    \/ \E p \in Dispatchers, nodes \in LockNodeLists : DispatchSample(p, nodes)
    \/ \E p \in Dispatchers : DispatchReturn(p)
    \/ \E p \in Registrars : RegistrarAddLock(p)
    \/ \E p \in Registrars : RegistrarAdd(p)
    \/ \E p \in Registrars : RegistrarRemoveLock(p)
    \/ \E p \in Registrars : RegistrarRemove(p)

SpecLock == InitLock /\ [][NextLock]_vars

\* C26: a goroutine that reads or writes the nodes, the last fetch or the
\* connected executors of a pool holds the mutex of the pool, so that no
\* goroutine reads these fields while another one is writing them.
C26_PoolFieldsUnderMutex ==
    /\ \A p \in PoolThreads :
          call.th[p].pc \in PoolReads \cup PoolWrites => call.mu = p
    /\ \A p, q \in PoolThreads :
          ~(p # q /\ call.th[p].pc \in PoolReads /\ call.th[q].pc \in PoolWrites)

\* ----------------------------------------------------- the lease window
\* The lease streams for the stored and enqueued task of InitRace, with the
\* clock running (one tick is 10 s): a request is late when it is received
\* more than leaseInterval + leaseGracePeriod after lastCheckin.
ExpiryMaxTime == 4
LeaseWindow == (leaseIntervalSeconds + leaseGracePeriodSeconds) \div 10
Late(s) == now - ls[s].lastCheckin > LeaseWindow

\* Ten seconds pass.
ExpiryTick ==
    /\ now < ExpiryMaxTime
    /\ now' = now + 1
    /\ UNCHANGED <<store, unclaimedTasks, poolHash, pools, reqs, ls, claimsHeld, call>>

NextExpiry ==
    \/ ExpiryTick
    \/ \E s \in Streams : LeaseRecvEnd(s)
    \/ \E s \in Streams, tid \in TaskIds \cup {""}, fin \in BOOLEAN :
          LeaseRecv(s, tid, fin, Late(s))
    \/ \E s \in Streams : LeaseIncr(s)
    \/ \E s \in Streams : LeaseRead(s)
    \/ \E s \in Streams, sc \in Schedulers : LeaseRemoveUnclaimed(s, sc)
    \/ \E s \in Streams, sendOk \in BOOLEAN : LeaseSend(s, sendOk)
    \/ \E s \in Streams : LeaseDefer(s)

\* The server takes its own steps and time passes; the clients send
\* requests, or close their streams, when they choose to.
SpecExpiry ==
    /\ InitRace
    /\ [][NextExpiry]_vars
    /\ WF_vars(ExpiryTick)
    /\ \A s \in Streams :
          /\ WF_vars(LeaseIncr(s))
          /\ WF_vars(LeaseRead(s))
          /\ WF_vars(\E sc \in Schedulers : LeaseRemoveUnclaimed(s, sc))
          /\ WF_vars(\E sendOk \in BOOLEAN : LeaseSend(s, sendOk))
          /\ WF_vars(LeaseDefer(s))

\* C27: a stream that holds a claim and has had no request within
\* leaseInterval + leaseGracePeriod of its last check-in is abandoned and its
\* task re-enqueued; a request that arrives after that window is not
\* processed: the store stays as it is and no response is sent.
C27_LeaseExpiry ==
    /\ \A s \in Streams :
          (ls[s].pc = "recv" /\ ls[s].claimed /\ Late(s))
             ~> (ls[s].pc = "done" /\ ls[s].reEnqueued)
    /\ [][\A s \in Streams, tid \in TaskIds \cup {""}, fin \in BOOLEAN :
             (LeaseRecv(s, tid, fin, Late(s)) /\ Late(s))
             => /\ store' = store /\ ls'[s].rsps = ls[s].rsps
                /\ ls'[s].pc \in {"defer", "done"}]_vars

\* ------------------------------------- the connected executors of a pool
\* The connectedExecutors list of one nodePool under any sequence of
\* AddConnectedExecutor and RemoveConnectedExecutor calls; each call runs
\* under the mutex of the pool. call.last is the last call: its name, its id,
\* the list it found and what it returned.
ConnectedIds == {"e1", "e2", "e3"}
ConnectedHandles == {"h1", "h2"}

\* An append without the search for the id.
AddConnectedAlways(list, id, handle) == [list |-> Append(list, Local(id, handle, 1, 1)), ok |-> TRUE]
\* nodePool.AddConnectedExecutor: the list after the call and the result.
AddConnectedExecutor(list, id, handle) ==
    [list |-> AddConnected(list, id, handle), ok |-> ~HasExecutor(list, id)]
\* nodePool.RemoveConnectedExecutor: the list after the call and the result.
RemoveConnectedExecutor(list, id) ==
    [list |-> RemoveConnected(list, id), ok |-> HasExecutor(list, id)]

InitConnected ==
    /\ now = 0
    /\ store = [t \in TaskIds |-> NoRow]
    /\ unclaimedTasks = [k \in PoolKeys |-> [t \in TaskIds |-> -1]]
    /\ poolHash = [k \in PoolKeys |-> <<>>]
    /\ pools = [sc \in Schedulers |-> [k \in PoolKeys |-> NoPool]]
    /\ reqs = [r \in Reqs |-> IdleReq]
    /\ ls = [s \in Streams |-> NewStream]
    /\ claimsHeld = [t \in TaskIds |-> 0]
    /\ call = [op |-> "connectedExecutors", connectedExecutors |-> <<>>,
               last |-> [name |-> "", id |-> "", before |-> <<>>, ok |-> FALSE]]

ConnectedAdd(id, handle) ==
    /\ call.op = "connectedExecutors"
    /\ LET r == AddConnectedExecutor(call.connectedExecutors, id, handle)
       IN  call' = [call EXCEPT !.connectedExecutors = r.list,
                       !.last = [name |-> "AddConnectedExecutor", id |-> id,
                                 before |-> call.connectedExecutors, ok |-> r.ok]]
    /\ Quiet

ConnectedRemove(id) ==
    /\ call.op = "connectedExecutors"
    /\ LET r == RemoveConnectedExecutor(call.connectedExecutors, id)
       IN  call' = [call EXCEPT !.connectedExecutors = r.list,
                       !.last = [name |-> "RemoveConnectedExecutor", id |-> id,
                                 before |-> call.connectedExecutors, ok |-> r.ok]]
    /\ Quiet

NextConnected ==
    \/ \E id \in ConnectedIds, handle \in ConnectedHandles : ConnectedAdd(id, handle)
    \/ \E id \in ConnectedIds : ConnectedRemove(id)

SpecConnected == InitConnected /\ [][NextConnected]_vars

\* The entries of a list, as a set.
Entries(list) == {list[i] : i \in 1..Len(list)}

\* C32: the connected-executors list holds at most one entry per executor
\* id; AddConnectedExecutor for an id in the list returns false and leaves
\* the list as it is; RemoveConnectedExecutor for an id not in the list
\* returns false and leaves the list as it is, and for an id in the list it
\* returns true, removes the entry of that id and keeps every other entry.
C32_ConnectedIdempotent ==
    call.op = "connectedExecutors" =>
        LET list == call.connectedExecutors
            last == call.last
            had == \E i \in 1..Len(last.before) : last.before[i].executorID = last.id
        IN  /\ \A i, j \in 1..Len(list) : list[i].executorID = list[j].executorID => i = j
            /\ (last.name = "AddConnectedExecutor" /\ had)
               => (~last.ok /\ list = last.before)
            /\ (last.name = "AddConnectedExecutor" /\ ~had)
               => (last.ok /\ Len(list) = Len(last.before) + 1
                   /\ Entries(last.before) \subseteq Entries(list))
            /\ (last.name = "RemoveConnectedExecutor" /\ ~had)
               => (~last.ok /\ list = last.before)
            /\ (last.name = "RemoveConnectedExecutor" /\ had)
               => /\ last.ok /\ Len(list) = Len(last.before) - 1
                  /\ Entries(list) = {e \in Entries(last.before) : e.executorID # last.id}

\* The first of three connected executors was removed, the last one took
\* its place, and a second add of a connected id was refused before that.
C32_Witness ==
    /\ call.op = "connectedExecutors"
    /\ call.last.name = "RemoveConnectedExecutor" /\ call.last.ok
    /\ Len(call.last.before) = 3
    /\ call.last.before[1].executorID = call.last.id
    /\ call.connectedExecutors[1] = call.last.before[3]

\* ------------------------------------------------------ RefreshNodes alone
\* RefreshNodes on one pool as time passes, on a clock finer than the
\* second: the test of lastFetch compares Unix times, which are whole
\* seconds. call.np is the pool, call.last the last call: the pool it found,
\* the time of the call, what HGETALL returned and the error of the call.
RefreshMaxTime == 24
\* The ticks of this clock in one second, the unit of time.Time.Unix().
TicksPerSecond == 2
StalenessTicks == maxAllowedExecutionNodesStaleness * 10 * TicksPerSecond
RefreshZeroTime == -100 * TicksPerSecond
RefreshHashes == {<<>>, <<Remote("e1", "B", 1, 1)>>, <<Remote("e2", "A", 2, 2)>>}

\* time.Time.Unix(): the seconds since the epoch, rounded down.
Unix(t) == IF t >= 0 THEN t \div TicksPerSecond ELSE -((-t + TicksPerSecond - 1) \div TicksPerSecond)

\* fetchExecutionNodes: the content of the pool hash, or the error of HGETALL.
fetchExecutionNodes(hash, ok) ==
    IF ok THEN [nodes |-> hash, err |-> ""] ELSE [nodes |-> <<>>, err |-> "Unavailable"]

\* A refresh that keeps a cache fetched within the bound even when it is empty.
RefreshNodesKeepEmpty(np, hash, ok, t) ==
    IF Unix(np.lastFetch) > Unix(t - StalenessTicks)
    THEN [np |-> np, err |-> ""]
    ELSE LET fetched == fetchExecutionNodes(hash, ok)
         IN  IF fetched.err # "" THEN [np |-> np, err |-> fetched.err]
             ELSE [np |-> [np EXCEPT !.nodes = fetched.nodes, !.lastFetch = t], err |-> ""]
\* RefreshNodes, with the clock of this section and the error of the fetch.
RefreshNodesUnix(np, hash, ok, t) ==
    IF Unix(np.lastFetch) > Unix(t - StalenessTicks) /\ Len(np.nodes) > 0
    THEN [np |-> np, err |-> ""]
    ELSE LET fetched == fetchExecutionNodes(hash, ok)
         IN  IF fetched.err # "" THEN [np |-> np, err |-> fetched.err]
             ELSE [np |-> [np EXCEPT !.nodes = fetched.nodes, !.lastFetch = t], err |-> ""]

InitRefresh ==
    /\ now = 0
    /\ store = [t \in TaskIds |-> NoRow]
    /\ unclaimedTasks = [k \in PoolKeys |-> [t \in TaskIds |-> -1]]
    /\ poolHash = [k \in PoolKeys |-> <<>>]
    /\ pools = [sc \in Schedulers |-> [k \in PoolKeys |-> NoPool]]
    /\ reqs = [r \in Reqs |-> IdleReq]
    /\ ls = [s \in Streams |-> NewStream]
    /\ claimsHeld = [t \in TaskIds |-> 0]
    /\ call = [op |-> "RefreshNodes",
               np |-> [NewNodePool EXCEPT !.lastFetch = RefreshZeroTime],
               last |-> [called |-> FALSE, before |-> NewNodePool, at |-> 0,
                         hash |-> <<>>, ok |-> TRUE, err |-> ""]]

RefreshTick ==
    /\ call.op = "RefreshNodes"
    /\ now < RefreshMaxTime
    /\ now' = now + 1
    /\ UNCHANGED <<store, unclaimedTasks, poolHash, pools, reqs, ls, claimsHeld, call>>

RefreshRun(hash, ok) ==
    /\ call.op = "RefreshNodes"
    /\ LET r == RefreshNodesUnix(call.np, hash, ok, now)
       IN  call' = [call EXCEPT !.np = r.np,
                       !.last = [called |-> TRUE, before |-> call.np, at |-> now,
                                 hash |-> hash, ok |-> ok, err |-> r.err]]
    /\ Quiet

NextRefresh ==
    \/ RefreshTick
    \/ \E hash \in RefreshHashes, ok \in BOOLEAN : RefreshRun(hash, ok)

SpecRefresh == InitRefresh /\ [][NextRefresh]_vars

\* The age of the cache that the last call found, and what the call did.
RefreshAge == call.last.at - call.last.before.lastFetch
RefreshReplaced ==
    call.np = [call.last.before EXCEPT !.nodes = call.last.hash, !.lastFetch = call.last.at]
RefreshUnchanged == call.np = call.last.before

\* C33 as stated: a refresh replaces the cache by the content of the pool
\* hash whenever the cache is empty or the last fetch is more than 10 s old,
\* leaves the cache and the time of the last fetch as they are when the last
\* fetch is at most 10 s old and the cache is not empty, and leaves both as
\* they are when the read fails; so no fit is counted against a cache that
\* is not empty and more than 10 s old.
C33_RefreshFrame ==
    (call.op = "RefreshNodes" /\ call.last.called) =>
        LET last == call.last
            empty == Len(last.before.nodes) = 0
            stale == RefreshAge > StalenessTicks
        IN  /\ ((empty \/ stale) /\ last.ok) => RefreshReplaced
            /\ (~empty /\ ~stale) => RefreshUnchanged
            /\ ~last.ok => RefreshUnchanged
            /\ (last.err = "" /\ Len(call.np.nodes) > 0)
               => last.at - call.np.lastFetch <= StalenessTicks

\* C33, amended: as above, but the cache that is not empty is sure to be
\* left as it is only when the last fetch is at most 9 s old; a last fetch
\* between 9 s and 10 s old is kept or replaced, by the whole seconds of the
\* two times.
C33_RefreshFrameSeconds ==
    (call.op = "RefreshNodes" /\ call.last.called) =>
        LET last == call.last
            empty == Len(last.before.nodes) = 0
            stale == RefreshAge > StalenessTicks
            recent == RefreshAge <= StalenessTicks - TicksPerSecond
        IN  /\ ((empty \/ stale) /\ last.ok) => RefreshReplaced
            /\ (~empty /\ recent) => RefreshUnchanged
            /\ (~empty /\ ~recent /\ ~stale) => (RefreshUnchanged \/ (last.ok /\ RefreshReplaced))
            /\ ~last.ok => RefreshUnchanged
            /\ (last.err = "" /\ Len(call.np.nodes) > 0)
               => last.at - call.np.lastFetch <= StalenessTicks

\* A cache that was not empty and 9.5 s old has been replaced, and one of
\* that age has been kept at another time.
C33_Witness ==
    /\ call.op = "RefreshNodes" /\ call.last.called /\ call.last.ok
    /\ Len(call.last.before.nodes) > 0
    /\ RefreshAge = StalenessTicks - 1
    /\ RefreshReplaced /\ ~RefreshUnchanged

\* ------------------------------------------- a claim that returns an error
\* The race for one task again, on a Redis that may fail a command: the
\* HINCRBY of claimTask returns an error after the claim script has set
\* claimed. claimTask returns the error, LeaseTask returns it to the stream
\* with claimed still false, and the deferred function does nothing.
LeaseIncrError(s) ==
    /\ ls[s].pc = "incr"
    /\ ls' = [ls EXCEPT ![s] = Exit(@, "Unavailable")]
    /\ UNCHANGED <<now, store, unclaimedTasks, poolHash, pools, reqs, call>>
    /\ TrackClaims({})

NextClaimError ==
    \/ NextRace
    \/ \E s \in Streams : LeaseIncrError(s)

SpecClaimError == InitRace /\ [][NextClaimError]_vars

\* C34: when the claim step of a stream returns an error, so that the stream
\* ends unclaimed and without a re-enqueue, the stream does not leave the
\* claimed field of the task set: a claim that lost the script changes
\* nothing in the store, and a claim whose script succeeded and whose
\* increment of attemptCount failed leaves the task unclaimed.
C34_ClaimErrorReleases ==
    [][\A s \in Streams :
          /\ (ls[s].pc = "recv" /\ ls'[s].pc = "done" /\ ls'[s].result = "NotFound")
             => store' = store
          /\ (ls[s].pc = "incr" /\ ls'[s].pc = "done")
             => ~(store'[ls[s].taskID].exists /\ store'[ls[s].taskID].claimed)]_vars

\* ------------------------------------------------ a lease that went stale
\* Stream l1 claimed t1 and has had its first response; the TTL of the hash
\* then ran out and a ScheduleTask stored t1 again. The claim of l1 is gone
\* with the old hash, l1 still has claimed set, and every operation may
\* follow: a claim set on the new hash is never that of l1, which runs the
\* claim script only while its own claimed is false.
StaleStream == "l1"

InitStale ==
    /\ now = 0
    /\ store = [t \in TaskIds |->
          IF t = RaceTask THEN ExpireTask(HSetTask(NoRow, "x", Meta1, 0)) ELSE NoRow]
    /\ unclaimedTasks = [k \in PoolKeys |->
          IF k = Meta1.pool THEN AddUnclaimedTask([t \in TaskIds |-> -1], RaceTask, 0)
          ELSE [t \in TaskIds |-> -1]]
    /\ poolHash = RegisteredNodes
    /\ pools = [sc \in Schedulers |-> [k \in PoolKeys |->
          IF sc = RequestScheduler /\ k = Meta1.pool
          THEN RefreshNodes(NewNodePool, RegisteredNodes[k], 0) ELSE NoPool]]
    /\ reqs = [r \in Reqs |-> IdleReq]
    /\ ls = [s \in Streams |->
          IF s = StaleStream
          THEN [NewStream EXCEPT !.taskID = RaceTask, !.claimed = TRUE,
                   !.rsps = <<[serializedTask |-> "x",
                               leaseDurationSeconds |-> leaseIntervalSeconds,
                               closedCleanly |-> FALSE]>>]
          ELSE NewStream]
    /\ claimsHeld = [t \in TaskIds |-> 0]
    /\ call = NoCall

SpecStale == InitStale /\ [][Next]_vars

\* The stream has acquired the claim of the task and has not returned.
HoldsClaim(s, t) ==
    /\ ls[s].taskID = t
    /\ \/ ls[s].pc \in {"incr", "read", "zrem"}
       \/ (ls[s].claimed /\ ls[s].pc \in {"recv", "send", "defer"})

\* C37: the delete script that a stream runs on finalize deletes the task
\* only when the claim on the hash was acquired by that stream: the finalize
\* of the stream whose claim went with the old hash never deletes the hash
\* while another stream holds the claim it acquired on the new one.
C37_DeleteOwnClaimOnly ==
    [][\A sendOk \in BOOLEAN, s \in Streams \ {StaleStream} :
          (LeaseSend(StaleStream, sendOk) /\ HoldsClaim(s, RaceTask) /\ store[RaceTask].claimed)
          => store'[RaceTask] = store[RaceTask]]_vars

\* ------------------------------------------------------ ScheduleTask alone
\* ScheduleTask calls on a store that nothing else touches: no lease stream
\* and no expiry. A task of Meta3 finds no executor of its pool that fits
\* it, a task of Meta2 finds its pool empty.
Meta3 == [pool |-> "p1", hasSize |-> TRUE, mem |-> 2, cpu |-> 2]
ScheduleInputs ==
    RequestInputs \cup {[metadata |-> Meta3, payload |-> "x"], [metadata |-> Meta3, payload |-> "y"]}

NextSchedule ==
    \/ \E r \in Reqs, tid \in TaskIds \cup {""}, inp \in ScheduleInputs, t \in {now} :
          ScheduleTaskInsert(r, tid, inp.metadata, inp.payload, t)
    \/ \E r \in Reqs : ScheduleTaskReturn(r)
    \/ \E r \in Reqs : ScheduleTaskExpire(r)
    \/ \E r \in Reqs, t \in {now}, rank \in AllRankings, fails \in 0..MaxProbeFailures :
          ScheduleTaskDispatch(r, t, rank, fails)

SpecSchedule == Init /\ [][NextSchedule]_vars

\* C38: a ScheduleTask whose dispatch fails after the insert leaves the
\* store as the insert made it: the task is there, unclaimed, with
\* attemptCount 0; when the fit count returned Unavailable the unclaimed
\* set is as it was; and a ScheduleTask for an id whose task is in the store
\* returns AlreadyExists.
C38_FailedDispatchKeepsTask ==
    [][\A r \in Reqs :
          /\ (reqs[r].pc = "dispatch" /\ reqs'[r].pc = "done" /\ reqs'[r].err # "")
             => LET tid == reqs[r].taskId
                IN  /\ store' = store
                    /\ store'[tid].exists /\ store'[tid].hasData
                    /\ ~store'[tid].claimed /\ store'[tid].attemptCount = 0
                    /\ reqs'[r].err = "Unavailable" => unclaimedTasks' = unclaimedTasks
          /\ \A tid \in TaskIds, inp \in ScheduleInputs :
                (/\ ScheduleTaskInsert(r, tid, inp.metadata, inp.payload, now')
                 /\ inp.metadata # NilMeta /\ inp.metadata.hasSize /\ inp.payload # ""
                 /\ store[tid].hasData)
                => (reqs'[r].pc = "done" /\ reqs'[r].err = "AlreadyExists")]_vars

\* A ScheduleTask for t1 has returned AlreadyExists; the task is in the
\* store, unclaimed and with attemptCount 0, and in no unclaimed set: the
\* dispatch of the call that stored it found no executor.
C38_Witness ==
    \E r \in Reqs :
       /\ reqs[r].pc = "done" /\ reqs[r].err = "AlreadyExists"
       /\ store["t1"].exists /\ ~store["t1"].claimed /\ store["t1"].attemptCount = 0
       /\ store["t1"].metadata = Meta3
       /\ \A k \in PoolKeys : unclaimedTasks[k]["t1"] < 0

\* ------------------------------------------------- the probe loop, by steps
\* One call of enqueueTaskReservations, one iteration of its loop at a time,
\* for a request without executor id. Every probe may fail; the context of
\* the call is one that is cancelled at some time (call.cancels) or never;
\* while the loop runs, the executors may leave, so that a refresh by another
\* call, or RemoveConnectedExecutor, leaves the lists of the pool empty.
MaxLoopAttempts == 12
LoopSize == [pool |-> "p1", hasSize |-> TRUE, mem |-> 1, cpu |-> 1]
EmptyPool == [nodes |-> <<>>, connectedExecutors |-> <<>>]
LoopPools ==
    {[nodes |-> <<Remote("e1", "B", 1, 1)>>, connectedExecutors |-> <<>>],
     [nodes |-> <<Remote("e1", "B", 1, 1), Remote("e2", "A", 2, 2)>>,
      connectedExecutors |-> <<Local("e2", TRUE, 2, 2)>>]}

\* nodeBalancer.nodes, or connectedExecutors for a local dispatch, as read
\* at the start of a pass over the candidates.
Candidates(np, opts) == IF opts.alwaysScheduleLocally THEN np.connectedExecutors ELSE np.nodes

InitLoop ==
    /\ now = 0
    /\ store = [t \in TaskIds |-> NoRow]
    /\ unclaimedTasks = [k \in PoolKeys |-> [t \in TaskIds |-> -1]]
    /\ poolHash = RegisteredNodes
    /\ pools = [sc \in Schedulers |-> [k \in PoolKeys |-> NoPool]]
    /\ reqs = [r \in Reqs |-> IdleReq]
    /\ ls = [s \in Streams |-> NewStream]
    /\ claimsHeld = [t \in TaskIds |-> 0]
    /\ \E np \in LoopPools, opts \in {ScheduleOpts, EnqueueOpts}, cancels \in BOOLEAN :
          call = [op |-> "probeLoop", pool |-> np, opts |-> opts,
                  cancels |-> cancels, ctxDone |-> FALSE, returned |-> FALSE,
                  loop |-> NewLoop(minInt(opts.numReplicas, FitCount(np, LoopSize)), NoNode)]

\* The context of the call is cancelled (the caller has gone, or its
\* deadline has passed).
LoopCancel ==
    /\ call.op = "probeLoop" /\ ~call.returned
    /\ call.cancels /\ ~call.ctxDone
    /\ call' = [call EXCEPT !.ctxDone = TRUE]
    /\ Quiet

\* The executors of the pool have left.
LoopPoolEmptied ==
    /\ call.op = "probeLoop" /\ ~call.returned
    /\ call.pool # EmptyPool
    /\ call' = [call EXCEPT !.pool = EmptyPool]
    /\ Quiet

\* One iteration: the probe of this attempt is accepted (ok) or fails.
LoopIterate(ok, rank) ==
    /\ call.op = "probeLoop" /\ ~call.returned
    /\ call.loop.probesSent < call.loop.probeCount
    /\ call.loop.attempts < MaxLoopAttempts \/ call.ctxDone
    /\ rank \in Rankings(Candidates(call.pool, call.opts))
    /\ LET lp == call.loop
           env == [fails |-> IF ok THEN {} ELSE {lp.attempts + 1},
                   doneAt |-> IF call.ctxDone THEN lp.attempts + 1 ELSE 0]
           next == ProbeStep(lp, Candidates(call.pool, call.opts), call.opts, rank, env)
       IN  call' = [call EXCEPT !.loop = next, !.returned = next.err # ""]
    /\ Quiet

\* probesSent has reached probeCount: return nil.
LoopReturn ==
    /\ call.op = "probeLoop" /\ ~call.returned
    /\ call.loop.probesSent >= call.loop.probeCount
    /\ call' = [call EXCEPT !.returned = TRUE]
    /\ Quiet

LoopRankings == UNION {Rankings([i \in 1..n |-> i]) : n \in 0..2}

NextLoop ==
    \/ LoopCancel
    \/ LoopPoolEmptied
    \/ \E ok \in BOOLEAN, rank \in LoopRankings : LoopIterate(ok, rank)
    \/ LoopReturn

\* The server runs the loop; a context that is to be cancelled is cancelled.
SpecLoop ==
    /\ InitLoop
    /\ [][NextLoop]_vars
    /\ WF_vars(LoopCancel)
    /\ WF_vars(\E ok \in BOOLEAN, rank \in LoopRankings : LoopIterate(ok, rank))
    /\ WF_vars(LoopReturn)

\* An iteration that finds the context cancelled returns its error and
\* sends no probe.
CancelObserved ==
    [][(call.ctxDone /\ call'.loop.attempts # call.loop.attempts)
       => (call'.returned /\ call'.loop.err = "Canceled"
           /\ call'.loop.probes = call.loop.probes)]_vars

\* C39 as stated: a call with maxAttempts set, or whose context is cancelled
\* at some time, returns; an iteration that finds the context cancelled
\* returns the error of the context and sends no probe; a call without
\* maxAttempts whose context is never cancelled returns only after
\* probeCount probes were accepted.
C39_DispatcherTermination ==
    /\ (call.opts.maxAttempts > 0 \/ call.cancels) ~> call.returned
    /\ CancelObserved
    /\ []((call.returned /\ call.opts.maxAttempts = 0 /\ ~call.cancels)
          => (call.loop.err = "" /\ call.loop.probesSent = call.loop.probeCount))

\* C39, amended: as above, but a call without maxAttempts whose context is
\* never cancelled returns nil only after probeCount probes were accepted,
\* and otherwise returns Unavailable, having found the candidate list empty
\* at the start of a pass.
C39_DispatcherTerminationOrEmpty ==
    /\ (call.opts.maxAttempts > 0 \/ call.cancels) ~> call.returned
    /\ CancelObserved
    /\ []((call.returned /\ call.opts.maxAttempts = 0 /\ ~call.cancels)
          => \/ (call.loop.err = "" /\ call.loop.probesSent = call.loop.probeCount)
             \/ /\ call.loop.err = "Unavailable"
                /\ Candidates(call.pool, call.opts) = <<>>
                /\ call.loop.sampleIndex = 0)

\* A ScheduleTask dispatch all of whose probes failed has returned the error
\* of its context, once that was cancelled.
C39_Witness ==
    /\ call.op = "probeLoop" /\ call.returned
    /\ call.opts.maxAttempts = 0 /\ call.ctxDone
    /\ call.loop.err = "Canceled"
    /\ Len(call.loop.probes) >= 3
    /\ \A i \in 1..Len(call.loop.probes) : ~call.loop.probes[i].ok

\* ------------------------------------------------- getOrCreatePool, by steps
\* Threads of one scheduler call getOrCreatePool at the same time. call.pools
\* is s.pools (0: no entry, n: the n-th nodePool that newNodePool made),
\* call.mu is s.mu, a read-write mutex; a thread keeps its key, the pool it
\* read last and whether it went on to the write lock.
CreateThreads == {"c1", "c2", "c3"}
NoPoolObject == 0
IdleCreator == [pc |-> "idle", key |-> "", nodePool |-> NoPoolObject, upgraded |-> FALSE]

InitCreate ==
    /\ now = 0
    /\ store = [t \in TaskIds |-> NoRow]
    /\ unclaimedTasks = [k \in PoolKeys |-> [t \in TaskIds |-> -1]]
    /\ poolHash = RegisteredNodes
    /\ pools = [sc \in Schedulers |-> [k \in PoolKeys |-> NoPool]]
    /\ reqs = [r \in Reqs |-> IdleReq]
    /\ ls = [s \in Streams |-> NewStream]
    /\ claimsHeld = [t \in TaskIds |-> 0]
    /\ call = [op |-> "getOrCreatePool",
               pools |-> [k \in PoolKeys |-> NoPoolObject],
               mu |-> [readers |-> {}, writer |-> ""],
               created |-> 0,
               threads |-> [c \in CreateThreads |-> IdleCreator]]

\* A second look that finds nothing.
LookupSkipped(m, key) == NoPoolObject
\* nodePool, ok = s.pools[key] under the write lock.
LookupLocked(m, key) == m[key]

\* getOrCreatePool(key) is called.
CreateCall(c, key) ==
    /\ call.op = "getOrCreatePool" /\ call.threads[c].pc = "idle"
    /\ call' = [call EXCEPT !.threads[c] = [IdleCreator EXCEPT !.pc = "rlock", !.key = key]]
    /\ Quiet

\* s.mu.RLock()
CreateRLock(c) ==
    /\ call.op = "getOrCreatePool" /\ call.threads[c].pc = "rlock"
    /\ call.mu.writer = ""
    /\ call' = [call EXCEPT !.mu.readers = @ \cup {c}, !.threads[c].pc = "read"]
    /\ Quiet

\* nodePool, ok := s.pools[key]
CreateRead(c) ==
    /\ call.op = "getOrCreatePool" /\ call.threads[c].pc = "read"
    /\ call' = [call EXCEPT !.threads[c].nodePool = call.pools[call.threads[c].key],
                            !.threads[c].pc = "runlock"]
    /\ Quiet

\* s.mu.RUnlock(), and the return of the pool that was found.
CreateRUnlock(c) ==
    /\ call.op = "getOrCreatePool" /\ call.threads[c].pc = "runlock"
    /\ call' = [call EXCEPT !.mu.readers = @ \ {c},
                            !.threads[c].pc =
                                IF call.threads[c].nodePool # NoPoolObject THEN "done" ELSE "lock"]
    /\ Quiet

\* s.mu.Lock()
CreateLock(c) ==
    /\ call.op = "getOrCreatePool" /\ call.threads[c].pc = "lock"
    /\ call.mu.writer = "" /\ call.mu.readers = {}
    /\ call' = [call EXCEPT !.mu.writer = c, !.threads[c].pc = "check",
                            !.threads[c].upgraded = TRUE]
    /\ Quiet

\* The second look at s.pools[key] and, when there is no entry still,
\* newNodePool and s.pools[key] = nodePool.
CreateCheck(c) ==
    /\ call.op = "getOrCreatePool" /\ call.threads[c].pc = "check"
    /\ LET key == call.threads[c].key
           found == LookupLocked(call.pools, key)
       IN  call' = IF found # NoPoolObject
                   THEN [call EXCEPT !.threads[c].nodePool = found, !.threads[c].pc = "unlock"]
                   ELSE [call EXCEPT !.created = @ + 1,
                                     !.pools[key] = call.created + 1,
                                     !.threads[c].nodePool = call.created + 1,
                                     !.threads[c].pc = "unlock"]
    /\ Quiet

\* The deferred s.mu.Unlock(), and the return.
CreateUnlock(c) ==
    /\ call.op = "getOrCreatePool" /\ call.threads[c].pc = "unlock"
    /\ call' = [call EXCEPT !.mu.writer = "", !.threads[c].pc = "done"]
    /\ Quiet

NextCreate ==
    \/ \E c \in CreateThreads, key \in PoolKeys : CreateCall(c, key)
    \/ \E c \in CreateThreads : CreateRLock(c)
    \/ \E c \in CreateThreads : CreateRead(c)
    \/ \E c \in CreateThreads : CreateRUnlock(c)
    \/ \E c \in CreateThreads : CreateLock(c)
    \/ \E c \in CreateThreads : CreateCheck(c)
    \/ \E c \in CreateThreads : CreateUnlock(c)

SpecCreate == InitCreate /\ [][NextCreate]_vars

\* C40: every call of getOrCreatePool for a key returns the pool that the
\* map holds for that key, any two calls for one key return the same pool,
\* and no pool was made that the map does not hold: the map has never held
\* two pools for one key.
C40_OnePoolPerKey ==
    call.op = "getOrCreatePool" =>
        /\ \A c \in CreateThreads :
              call.threads[c].pc = "done"
              => /\ call.threads[c].nodePool # NoPoolObject
                 /\ call.threads[c].nodePool = call.pools[call.threads[c].key]
        /\ \A c, d \in CreateThreads :
              (/\ call.threads[c].pc = "done" /\ call.threads[d].pc = "done"
               /\ call.threads[c].key = call.threads[d].key)
              => call.threads[c].nodePool = call.threads[d].nodePool
        /\ call.created = Cardinality({k \in PoolKeys : call.pools[k] # NoPoolObject})
        /\ \A k, l \in PoolKeys :
              (call.pools[k] # NoPoolObject /\ call.pools[k] = call.pools[l]) => k = l

\* Two calls for one key both found no entry under the read lock, both went
\* on to the write lock, and both have returned the same pool.
C40_Witness ==
    /\ call.op = "getOrCreatePool"
    /\ \E c, d \in CreateThreads :
          /\ c # d
          /\ call.threads[c].pc = "done" /\ call.threads[d].pc = "done"
          /\ call.threads[c].key = call.threads[d].key
          /\ call.threads[c].upgraded /\ call.threads[d].upgraded
          /\ call.threads[c].nodePool = call.threads[d].nodePool

====
